---- MODULE Spec2Model ----
(***************************************************************************)
(* CrossWater routing model: the river-network graph model and the         *)
(* compartment-aggregation engine of crosswater/routing_model.             *)
(*                                                                         *)
(* A DBF table is a sequence of rows (records keyed by column name), a     *)
(* python list is a sequence, a python dict whose iteration order the code *)
(* depends on is a sequence of [k, v] entries in insertion order.          *)
(* Catchment ids are naturals; str(id) is modelled by the id itself where  *)
(* only equality of ids is used.                                           *)
(***************************************************************************)
EXTENDS Integers, Sequences, FiniteSets, TLC

(* ------------------------------ bounds --------------------------------- *)
\* rows of the catchment table of the partition specification
NumCatchments == 5
\* largest configured nr_compartments
MaxCompartments == 2
\* AREA of the one enlarged catchment (all others have AREA 1)
BigArea == 3
\* rows of the edge table of the closure specification
NumClosureIds == 4
\* rows of the catchment table of the aggregation specification
NumAggCatchments == 4
\* largest multiplier of a value column of the timestep table
MaxVal == 2
\* timesteps aggregated (the argument steps of Aggregate.aggregate)
MaxSteps == 2

(* ------------------------- program constants ---------------------------- *)
\* NEXTDOWNID of a terminal outlet
Sentinel == -9999

(* --------------------------- python helpers ---------------------------- *)
ToSet(s) == {s[i] : i \in DOMAIN s}

InList(x, s) == \E i \in DOMAIN s : s[i] = x

\* itertools.chain(*lists)
RECURSIVE Chain(_)
Chain(lists) ==
    IF lists = <<>> THEN <<>> ELSE Head(lists) \o Chain(Tail(lists))

RECURSIVE SumSeq(_)
SumSeq(s) == IF s = <<>> THEN 0 ELSE Head(s) + SumSeq(Tail(s))

\* dict: sequence of entries [k, v] in insertion order
HasKey(d, key) == \E i \in DOMAIN d : d[i].k = key

DictGet(d, key) == d[CHOOSE i \in DOMAIN d : d[i].k = key].v

DictKeys(d) == [i \in DOMAIN d |-> d[i].k]

DictValues(d) == [i \in DOMAIN d |-> d[i].v]

\* variant of setdefault-append that replaces the list of an existing key
SetDefaultOverwrite(d, key, x) ==
    IF HasKey(d, key)
    THEN [i \in DOMAIN d |->
            IF d[i].k = key THEN [k |-> key, v |-> <<x>>] ELSE d[i]]
    ELSE Append(d, [k |-> key, v |-> <<x>>])

\* d.setdefault(key, []).append(x)
SetDefaultAppend(d, key, x) ==
    IF HasKey(d, key)
    THEN [i \in DOMAIN d |->
            IF d[i].k = key THEN [k |-> key, v |-> Append(d[i].v, x)] ELSE d[i]]
    ELSE Append(d, [k |-> key, v |-> <<x>>])

(* ----------------------------- Connections ------------------------------ *)
\* str(id): the decimal digits of an id, most significant first; the sign of
\* '-9999' is the character code MinusSign
MinusSign == 10

RECURSIVE Digits(_)
Digits(n) ==
    IF n < 0 THEN <<MinusSign>> \o Digits(0 - n)
    ELSE IF n < 10 THEN <<n>>
    ELSE Append(Digits(n \div 10), n % 10)

\* python `a in b` for two strings
IsSubstr(a, b) ==
    \E i \in 0..(Len(b) - Len(a)) : SubSeq(b, i + 1, i + Len(a)) = a

\* active_ids argument: None, a list of ids, or one id (a string)
NoActive == [kind |-> "none", ids |-> <<>>]

ActiveList(ids) == [kind |-> "list", ids |-> ids]

ActiveStr(id) == [kind |-> "str", ids |-> <<id>>]

\* `if self.active_ids:` -- None and the empty list are both falsy
Truthy(active_ids) == active_ids.kind /= "none" /\ active_ids.ids /= <<>>

\* `id_ in self.active_ids`: list membership, or substring of a string
ActiveContains(active_ids, key) ==
    IF active_ids.kind = "str"
    THEN IsSubstr(Digits(key), Digits(active_ids.ids[1]))
    ELSE InList(key, active_ids.ids)

\* str.strip(): leading and trailing blanks removed
RECURSIVE strip(_)
strip(s) ==
    IF Len(s) > 0 /\ SubSeq(s, 1, 1) = " " THEN strip(SubSeq(s, 2, Len(s)))
    ELSE IF Len(s) > 0 /\ SubSeq(s, Len(s), Len(s)) = " "
    THEN strip(SubSeq(s, 1, Len(s) - 1))
    ELSE s

\* Connections._set_direction: the key column is next_id_name, the value
\* column is id_name; any other direction raises NameError
set_direction(direction) ==
    LET stripped == strip(direction)
    IN  IF stripped = "up"
        THEN [raised |-> "", id_name |-> "WSO1_ID", next_id_name |-> "NEXTDOWNID"]
        ELSE IF stripped = "down"
        THEN [raised |-> "", id_name |-> "NEXTDOWNID", next_id_name |-> "WSO1_ID"]
        ELSE [raised |-> "NameError", id_name |-> "", next_id_name |-> ""]

\* Connections._read_id_association: one column of the table, in row order
read_id_association(dbf, col_name) == [i \in DOMAIN dbf |-> dbf[i][col_name]]

RECURSIVE ConnectionsLoop(_, _, _, _)
ConnectionsLoop(dbf, cols, i, d) ==
    IF i > Len(dbf) THEN d
    ELSE ConnectionsLoop(dbf, cols, i + 1,
            SetDefaultAppend(d, dbf[i][cols.next_id_name], dbf[i][cols.id_name]))

\* Connections(dbf, direction, active_ids).connections; the columns are set
\* once, by the constructor, before the loop over the rows
Connections(dbf, direction, active_ids) ==
    LET all == CHOOSE d \in {ConnectionsLoop(dbf, cols, 1, <<>>) :
                                cols \in {set_direction(direction)}} : TRUE
    IN  IF Truthy(active_ids)
        THEN SelectSeq(all, LAMBDA e : ActiveContains(active_ids, e.k))
        ELSE all

(* -------------------------- UpstreamCatchments -------------------------- *)
\* variant of the frontier of one pass that looks up the first outlet only
UpstreamFrontierFirst(conn, outlets) ==
    IF outlets /= <<>> /\ HasKey(conn, outlets[1])
    THEN DictGet(conn, outlets[1]) ELSE <<>>

\* one pass of the while loop of upstream_ids: the ids draining directly
\* into the ids of the frontier `outlets`
UpstreamFrontier(conn, outlets) ==
    Chain([i \in DOMAIN
              SelectSeq(outlets, LAMBDA o : HasKey(conn, o)) |->
           DictGet(conn, SelectSeq(outlets, LAMBDA o : HasKey(conn, o))[i])])

RECURSIVE UpstreamLoop(_, _, _)
UpstreamLoop(conn, ids, outlets) ==
    IF outlets = <<>> THEN ids
    ELSE UpstreamLoop(conn, ids \o UpstreamFrontier(conn, outlets),
                      UpstreamFrontier(conn, outlets))

\* UpstreamCatchments.upstream_ids(catchment_dbf_file, id_outlet)
upstream_ids(dbf, id_outlet) ==
    UpstreamLoop(Connections(dbf, "up", NoActive), <<id_outlet>>, <<id_outlet>>)

\* UpstreamCatchments.upstream_dict(catchment_dbf_file, id_outlets)
RECURSIVE upstream_dict(_, _)
upstream_dict(dbf, id_outlets) ==
    IF id_outlets = <<>> THEN <<>>
    ELSE LET rest == upstream_dict(dbf, SubSeq(id_outlets, 1, Len(id_outlets) - 1))
             o == id_outlets[Len(id_outlets)]
             ids == upstream_ids(dbf, o)
         IN  IF HasKey(rest, o)
             THEN [i \in DOMAIN rest |->
                     IF rest[i].k = o THEN [k |-> o, v |-> ids] ELSE rest[i]]
             ELSE Append(rest, [k |-> o, v |-> ids])

(* ------------------------------ Tributaries ----------------------------- *)
\* read_ids(dbf_file_name, 'WSO1_ID')
read_ids(dbf) == [i \in DOMAIN dbf |-> dbf[i].WSO1_ID]

\* get_value_by_id(col_name): dict catchment-id -> value
RECURSIVE ValueLoop(_, _, _, _)
ValueLoop(dbf, col_name, i, d) ==
    IF i > Len(dbf) THEN d
    ELSE ValueLoop(dbf, col_name, i + 1,
            IF HasKey(d, dbf[i].WSO1_ID)
            THEN [j \in DOMAIN d |->
                    IF d[j].k = dbf[i].WSO1_ID
                    THEN [k |-> d[j].k, v |-> dbf[i][col_name]] ELSE d[j]]
            ELSE Append(d, [k |-> dbf[i].WSO1_ID, v |-> dbf[i][col_name]]))

get_value_by_id(dbf, col_name) == ValueLoop(dbf, col_name, 1, <<>>)

\* variant of ids_tributary_outlets: the river segments are not filtered out
ids_tributary_outlets_unfiltered(catchment_dbf_file, ids_riversegments) ==
    Chain(DictValues(
        Connections(catchment_dbf_file, "up", ActiveList(ids_riversegments))))

\* Tributaries.ids_tributary_outlets: the list self.ids_tributary_outlets
ids_tributary_outlets(catchment_dbf_file, ids_riversegments) ==
    LET conn == Connections(catchment_dbf_file, "up", ActiveList(ids_riversegments))
        id_outlets == Chain(DictValues(conn))
    IN  SelectSeq(id_outlets, LAMBDA id : ~InList(id, ids_riversegments))

\* Tributaries.ids_tributaries
ids_tributaries(catchment_dbf_file, outlets) ==
    upstream_dict(catchment_dbf_file, outlets)

\* Tributaries.areas_tributaries: dict outlet -> total area of its closure
areas_tributaries(tribs, areas) ==
    [i \in DOMAIN tribs |->
        [k |-> tribs[i].k,
         v |-> SumSeq(DictValues(
                  SelectSeq(areas, LAMBDA e : InList(e.k, tribs[i].v))))]]

\* Tributaries.__init__
TributariesNew(catchment_dbf_file, riversegments_file) ==
    LET segs == read_ids(riversegments_file)
        outlets == ids_tributary_outlets(catchment_dbf_file, segs)
        tribs == ids_tributaries(catchment_dbf_file, outlets)
        areas == get_value_by_id(catchment_dbf_file, "AREA")
    IN  [built |-> TRUE,
         areas |-> areas,
         ids_riversegments |-> segs,
         ids_tributary_outlets |-> outlets,
         ids_tributaries |-> tribs,
         areas_tributaries |-> areas_tributaries(tribs, areas)]

(* --------------------- Compartments (aqu_comp.py) ----------------------- *)
\* name of the compartment with head id_: 'C' + id_
CName(id) == <<"C", id>>

\* Compartments.get_junctions
get_junctions(catchment_dbf_file, ids_riversegments) ==
    LET conn == Connections(catchment_dbf_file, "up", ActiveList(ids_riversegments))
        key_set == ToSet(DictKeys(conn))
    IN  DictKeys(SelectSeq(conn,
            LAMBDA e : Cardinality(key_set \cap ToSet(e.v)) > 1))

\* variant of get_headwater: the connections are built in direction 'down'
get_headwater_down(riversegments_file, ids_riversegments) ==
    LET conn == Connections(riversegments_file, "down", ActiveList(ids_riversegments))
    IN  SelectSeq(ids_riversegments, LAMBDA id : ~HasKey(conn, id))

\* Compartments.get_headwater
get_headwater(riversegments_file, ids_riversegments) ==
    LET conn == Connections(riversegments_file, "up", ActiveList(ids_riversegments))
    IN  SelectSeq(ids_riversegments, LAMBDA id : ~HasKey(conn, id))

\* Compartments.nr_div: returns the (possibly clamped) nr_comp and nr_div,
\* and whether the warning was printed
nr_div(nr_comp, ids_junctions) ==
    LET nr_rivers == Len(ids_junctions) * 2 + 1
    IN  IF nr_comp - nr_rivers < 0
        THEN [nr_comp |-> nr_rivers, nr_div |-> 0, warning |-> TRUE]
        ELSE [nr_comp |-> nr_comp, nr_div |-> nr_comp - nr_rivers, warning |-> FALSE]

\* a descending sort that is not stable: of two keys of equal area the
\* later one comes first
RECURSIVE SortedDescUnstable(_, _)
SortedDescUnstable(keys, areas) ==
    IF keys = <<>> THEN <<>>
    ELSE LET rest == SortedDescUnstable(SubSeq(keys, 1, Len(keys) - 1), areas)
             x == keys[Len(keys)]
             n == Cardinality({i \in DOMAIN rest :
                      DictGet(areas, rest[i]) > DictGet(areas, x)})
         IN  SubSeq(rest, 1, n) \o <<x>> \o SubSeq(rest, n + 1, Len(rest))

\* sorted(keys, key=areas.get, reverse=True): stable, descending
RECURSIVE SortedDesc(_, _)
SortedDesc(keys, areas) ==
    IF keys = <<>> THEN <<>>
    ELSE LET rest == SortedDesc(SubSeq(keys, 1, Len(keys) - 1), areas)
             x == keys[Len(keys)]
             \* x goes behind every element that is not smaller
             n == Cardinality({i \in DOMAIN rest :
                      DictGet(areas, rest[i]) >= DictGet(areas, x)})
         IN  SubSeq(rest, 1, n) \o <<x>> \o SubSeq(rest, n + 1, Len(rest))

\* python slice s[0:n]
Slice0(s, n) == SubSeq(s, 1, IF n < Len(s) THEN n ELSE Len(s))

\* Compartments.get_advective_inlets (aqu_comp.py). s_outlets.discard(s_exclude)
\* discards the set object s_exclude, which is no element of the set of
\* outlet ids, so s_outlets keeps every outlet.
get_advective_inlets(catchment_dbf_file, areas_trib, ids_headwater, n_div) ==
    LET s_outlets == ToSet(DictKeys(areas_trib))
        keys == SelectSeq(DictKeys(areas_trib), LAMBDA key : key \in s_outlets)
        outlets == Slice0(SortedDesc(keys, areas_trib), n_div)
    IN  IF outlets /= <<>>
        THEN Chain(DictValues(
                 Connections(catchment_dbf_file, "down", ActiveList(outlets))))
        ELSE <<>>

\* Compartments.ids_up: list(set(...)); the order of the list is that of a
\* python set and nothing below depends on it, so the heads are a set
ids_up(ids_advective_inlets, ids_headwater, ids_junctions) ==
    ToSet(ids_advective_inlets \o ids_headwater \o ids_junctions)

\* the ids of a collection as a list (membership tests only)
RECURSIVE SetToSeq(_)
SetToSeq(S) ==
    IF S = {} THEN <<>>
    ELSE LET m == CHOOSE x \in S : \A y \in S : x <= y
         IN  <<m>> \o SetToSeq(S \ {m})

\* Compartments.ids_down
ids_down(riversegments_file, heads) ==
    LET conn == Connections(riversegments_file, "up", ActiveList(SetToSeq(heads)))
        down == Connections(riversegments_file, "down", NoActive)
        id_last == DictKeys(SelectSeq(down, LAMBDA e : e.v = <<Sentinel>>))
    IN  Chain(DictValues(conn)) \o id_last

\* the while loop of Compartments.compartments
RECURSIVE CompartmentWalk(_, _, _, _)
CompartmentWalk(conn, heads, ids, nextid) ==
    IF nextid \notin heads /\ nextid /= Sentinel
    THEN CompartmentWalk(conn, heads, Append(ids, nextid),
                         DictGet(conn, nextid)[1])
    ELSE ids

\* the while loop of Compartments.compartments comes to an id that is no key
\* of the connection map: conn.connections.get(nextid) is None and None[0]
\* raises TypeError
RECURSIVE walk_raises(_, _, _)
walk_raises(conn, heads, nextid) ==
    /\ nextid \notin heads
    /\ nextid /= Sentinel
    /\ \/ ~HasKey(conn, nextid)
       \/ walk_raises(conn, heads, DictGet(conn, nextid)[1])

\* Compartments.compartments raises for one of the heads
compartments_raises(riversegments_file, ids_riversegments, heads) ==
    LET conn == Connections(riversegments_file, "down", ActiveList(ids_riversegments))
    IN  \E id \in heads : walk_raises(conn, heads, DictGet(conn, id)[1])

\* Compartments.compartments: mapping compartment name -> list of ids
compartments_of(riversegments_file, ids_riversegments, heads) ==
    LET conn == Connections(riversegments_file, "down", ActiveList(ids_riversegments))
    IN  [name \in {CName(id) : id \in heads} |->
            LET id == name[2]
            IN  CompartmentWalk(conn, heads, <<id>>, DictGet(conn, id)[1])]

\* Compartments.comp_length
comp_length(riversegments_file, comps) ==
    LET lengths == get_value_by_id(riversegments_file, "LENGTH")
    IN  [name \in DOMAIN comps |->
            SumSeq([i \in DOMAIN comps[name] |-> DictGet(lengths, comps[name][i])])]

\* Compartments.__init__ (aqu_comp.py)
CompartmentsNew(catchment_dbf_file, riversegments_file, config_nr, trib) ==
    LET segs == read_ids(riversegments_file)
        junctions == get_junctions(catchment_dbf_file, segs)
        headwater == get_headwater(riversegments_file, segs)
        div == nr_div(config_nr + 1, junctions)
        inlets == get_advective_inlets(catchment_dbf_file, trib.areas_tributaries,
                                       headwater, div.nr_div)
        heads == ids_up(inlets, headwater, junctions)
        comps == compartments_of(riversegments_file, segs, heads)
    IN  IF compartments_raises(riversegments_file, segs, heads)
        THEN [built |-> FALSE, raised |-> "TypeError"]
        ELSE
        [built |-> TRUE,
         areas_tributaries |-> trib.areas_tributaries,
         nr_comp |-> div.nr_comp,
         warning |-> div.warning,
         ids_riversegments |-> segs,
         ids_junctions |-> junctions,
         ids_headwater |-> headwater,
         nr_div |-> div.nr_div,
         ids_advective_inlets |-> inlets,
         ids_up |-> heads,
         ids_down |-> ids_down(riversegments_file, heads),
         compartments |-> comps,
         comp_length |-> comp_length(riversegments_file, comps)]

(* ---------------------- Compartments (routing.py) ----------------------- *)
\* Compartments.get_advective_inlets (routing.py)
routing_get_advective_inlets(catchment_dbf_file, areas_trib, ids_headwater, n_div) ==
    LET outlets == SortedDesc(DictKeys(areas_trib), areas_trib)
    IN  IF outlets /= <<>>
        THEN LET inlets == Chain(DictValues(
                     Connections(catchment_dbf_file, "down", ActiveList(outlets))))
                 inlets_along == SelectSeq(inlets,
                                     LAMBDA inlet : ~InList(inlet, ids_headwater))
             IN  Slice0(inlets_along, n_div)
        ELSE <<>>

\* Compartments.ids_up (routing.py): a list, duplicates kept
routing_ids_up(ids_advective_inlets, ids_headwater, ids_junctions) ==
    ids_advective_inlets \o ids_headwater \o ids_junctions

\* Compartments.compartments (routing.py): the list starts with the id below
\* the head, and the loop appends that id again
routing_compartments_of(riversegments_file, ids_riversegments, heads) ==
    LET conn == Connections(riversegments_file, "down", ActiveList(ids_riversegments))
    IN  [name \in {CName(id) : id \in ToSet(heads)} |->
            LET nextid == DictGet(conn, name[2])[1]
            IN  CompartmentWalk(conn, ToSet(heads), <<nextid>>, nextid)]

\* Compartments.__init__ (routing.py)
RoutingCompartmentsNew(catchment_dbf_file, riversegments_file, config_nr, areas_trib) ==
    LET segs == read_ids(riversegments_file)
        junctions == get_junctions(catchment_dbf_file, segs)
        headwater == get_headwater(riversegments_file, segs)
        div == nr_div(config_nr, junctions)
        inlets == routing_get_advective_inlets(catchment_dbf_file, areas_trib,
                                               headwater, div.nr_div)
        heads == routing_ids_up(inlets, headwater, junctions)
    IN  [built |-> TRUE,
         areas_tributaries |-> areas_trib,
         nr_comp |-> div.nr_comp,
         warning |-> div.warning,
         ids_riversegments |-> segs,
         ids_junctions |-> junctions,
         ids_headwater |-> headwater,
         nr_div |-> div.nr_div,
         ids_advective_inlets |-> inlets,
         ids_up |-> heads,
         ids_down |-> ids_down(riversegments_file, ToSet(heads)),
         compartments |-> routing_compartments_of(riversegments_file, segs, heads)]

(* ------------------------- Links (aqu_comp.py) -------------------------- *)
\* Links.compartment_links: the rows written to the link table
compartment_links(riversegments_file, ids_riversegments, comps) ==
    LET toCompart(name) ==
            Chain(DictValues(Connections(riversegments_file, "down",
                ActiveStr(comps[name][Len(comps[name])]))))[1]
    IN  {[Name |-> <<"L", comps[name][1]>>,
          fromCompart |-> name,
          toCompart |-> CName(toCompart(name))] :
            name \in {n \in DOMAIN comps : InList(toCompart(n), ids_riversegments)}}

\* Links.upstream_tributaries
upstream_tributaries(catchment_dbf_file, ids_riversegments, comps) ==
    [name \in DOMAIN comps |->
        LET conn == Connections(catchment_dbf_file, "up", ActiveStr(comps[name][1]))
            outlets == Chain(DictValues(conn))
        IN  SelectSeq(outlets, LAMBDA id : ~InList(id, ids_riversegments))]

\* variant of Links.lateral_tributaries that filters with all ids of the
\* compartment, the head included
lateral_tributaries_with_head(catchment_dbf_file, ids_riversegments, comps) ==
    [name \in DOMAIN comps |->
        LET conn == Connections(catchment_dbf_file, "up", ActiveList(comps[name]))
            outlets == Chain(DictValues(conn))
        IN  SelectSeq(outlets, LAMBDA id : ~InList(id, ids_riversegments))]

\* Links.lateral_tributaries
lateral_tributaries(catchment_dbf_file, ids_riversegments, comps) ==
    [name \in DOMAIN comps |->
        LET id_lat == Tail(comps[name])
            conn == Connections(catchment_dbf_file, "up", ActiveList(id_lat))
            outlets == Chain(DictValues(conn))
        IN  IF id_lat = <<>> THEN <<>>
            ELSE SelectSeq(outlets, LAMBDA id : ~InList(id, ids_riversegments))]

\* Links.upstream_input
upstream_input(tribs, up_trib) ==
    [name \in DOMAIN up_trib |->
        Chain([i \in DOMAIN up_trib[name] |-> DictGet(tribs, up_trib[name][i])])]

\* Links.lateral_input
lateral_input(tribs, lat_trib, comps) ==
    [name \in DOMAIN lat_trib |->
        Chain(Append([i \in DOMAIN lat_trib[name] |->
                         DictGet(tribs, lat_trib[name][i])],
                     comps[name]))]

\* ids_tributaries.get(id_) is None for an id that is no tributary outlet,
\* and itertools.chain(*...) over a None raises TypeError
input_raises(tribs, trib_of) ==
    \E name \in DOMAIN trib_of :
        \E i \in DOMAIN trib_of[name] : ~HasKey(tribs, trib_of[name][i])

\* Links.__init__: the object, or the exception that leaves the constructor
LinksNew(catchment_dbf_file, riversegments_file, trib, comp) ==
    LET up_trib == upstream_tributaries(catchment_dbf_file,
                       comp.ids_riversegments, comp.compartments)
        lat_trib == lateral_tributaries(catchment_dbf_file,
                       comp.ids_riversegments, comp.compartments)
    IN  IF input_raises(trib.ids_tributaries, lat_trib)
           \/ input_raises(trib.ids_tributaries, up_trib)
        THEN [built |-> FALSE, raised |-> "TypeError"]
        ELSE
        [built |-> TRUE,
         compartment_links |-> compartment_links(riversegments_file,
                       comp.ids_riversegments, comp.compartments),
         upstream_tributaries |-> up_trib,
         lateral_tributaries |-> lat_trib,
         lateral_input |-> lateral_input(trib.ids_tributaries, lat_trib,
                                         comp.compartments),
         upstream_input |-> upstream_input(trib.ids_tributaries, up_trib)]

(* ------------------------ Aggregate (aqu_comp.py) ----------------------- *)
\* in_table[col][in_table['catchment'].isin(ids)].sum()
SumWhere(table, col, ids) ==
    SumSeq([i \in DOMAIN table |->
              IF InList(table[i].catchment, ids) THEN table[i][col] ELSE 0])

\* variant of Aggregate._write_lateral_input that sums discharge over the
\* lateral ids as it sums load
write_lateral_input_over_ids(table, lat_input, lat_trib) ==
    [name \in DOMAIN lat_input |->
        [compartment |-> name,
         load_aggregated |-> SumWhere(table, "load", lat_input[name]),
         discharge |-> SumWhere(table, "discharge", lat_input[name])]]

\* Aggregate._write_lateral_input: the rows appended to lateral_input
write_lateral_input(table, lat_input, lat_trib) ==
    [name \in DOMAIN lat_input |->
        [compartment |-> name,
         load_aggregated |-> SumWhere(table, "load", lat_input[name]),
         discharge |-> SumWhere(table, "discharge", lat_trib[name])]]

\* Aggregate._write_upstream_input: the rows appended to upstream_input
write_upstream_input(table, up_input, up_trib) ==
    [name \in DOMAIN up_input |->
        [compartment |-> name,
         load_aggregated |-> SumWhere(table, "load", up_input[name]),
         discharge |-> SumWhere(table, "discharge", up_trib[name])]]

(* ------------------- Aggregate (upstreamaggregation.py) ----------------- *)
\* in_table.catchment[in_table.catchment == outlet]
OutletRows(table, outlet) == SelectSeq(table, LAMBDA r : r.catchment = outlet)

\* variant of Aggregate._write_upstream_input that sums discharge over the
\* upstream ids as it sums load
outlet_upstream_input_summed(table, up_input) ==
    IF \E i \in DOMAIN up_input : Len(OutletRows(table, up_input[i].k)) /= 1
    THEN [raised |-> "ValueError"]
    ELSE [raised |-> "",
          rows |-> [i \in DOMAIN up_input |->
              [outlet |-> up_input[i].k,
               load_aggregated |-> SumWhere(table, "load", up_input[i].v),
               local_discharge_aggregated |->
                   SumWhere(table, "local_discharge", up_input[i].v),
               discharge |-> SumWhere(table, "discharge", up_input[i].v)]]]

\* Aggregate._write_upstream_input: the rows appended to upstream_input;
\* index.item() raises ValueError unless exactly one row is the outlet's
outlet_upstream_input(table, up_input) ==
    IF \E i \in DOMAIN up_input : Len(OutletRows(table, up_input[i].k)) /= 1
    THEN [raised |-> "ValueError"]
    ELSE [raised |-> "",
          rows |-> [i \in DOMAIN up_input |->
              [outlet |-> up_input[i].k,
               load_aggregated |-> SumWhere(table, "load", up_input[i].v),
               local_discharge_aggregated |->
                   SumWhere(table, "local_discharge", up_input[i].v),
               discharge |-> OutletRows(table, up_input[i].k)[1].discharge]]]

(* ------------------- LoadAggregation (routing.py) ----------------------- *)
\* in_table['catchment'].str.contains(id_outlet).any(): some catchment id
\* has the digits of id_outlet as a substring
ContainsAny(table, id_outlet) ==
    \E i \in DOMAIN table : IsSubstr(Digits(id_outlet), Digits(table[i].catchment))

\* LoadAggregation._write_output: the rows appended to values; an outlet
\* that no catchment id contains is passed over. The discharge stored is the
\* selection of the outlet's rows, which fits the Float64 column only if it
\* is one row
routing_write_output(table, outlets, ids_trib) ==
    LET written == SelectSeq(outlets, LAMBDA id : ContainsAny(table, id))
    IN  IF \E i \in DOMAIN written : Len(OutletRows(table, written[i])) /= 1
        THEN [raised |-> "ValueError"]
        ELSE [raised |-> "",
              rows |-> [i \in DOMAIN written |->
                  [catchment_outlet |-> written[i],
                   load_aggregated |->
                       SumWhere(table, "load", DictGet(ids_trib, written[i])),
                   discharge |-> OutletRows(table, written[i])[1].discharge]]]

(* ------------------------------- state ---------------------------------- *)
VARIABLES
    catchment_dbf,          \* rows of the catchment table (catchment_path)
    riversegments_dbf,      \* rows of the river-segment table (riversegments_path)
    nr_compartments,        \* config['routing_model']['nr_compartments']
    tributaries,            \* aqu_comp.Tributaries object
    compartments,           \* aqu_comp.Compartments object
    routing_compartments,   \* routing.Compartments object
    links,                  \* aqu_comp.Links object
    upstream,               \* frame of a running UpstreamCatchments.upstream_ids
    outlet_list,            \* config['routing_model']['outlet_list']
    upstreamcatchments,     \* upstreamaggregation.UpstreamCatchments object
    step,                   \* number of timesteps aggregated so far
    in_table,               \* rows of /step_<n>/values read for the last step
    hdf_output,             \* the group step_<n> written for the last step
    connection,             \* a Connections object
    program,                \* the script or class that is run
    hdf_input,              \* the per-timestep file a Convert object reads
    convert,                \* a Convert object and the file it writes
    runs,                   \* the Compartments objects of successive runs
    runner,                 \* the ModelRunner object and the frame of _run_all
    workers,                \* the Worker threads started so far
    queue,                  \* ModelRunner.queue
    output_table,           \* the table /output of the output file
    reader,                 \* a CsvReader object and its file objects
    buffer                  \* a Buffer_lakes object and the frame of sum_load

inputVars == <<catchment_dbf, riversegments_dbf, nr_compartments, outlet_list,
               program>>

aggVars == <<step, in_table, hdf_output>>

runnerVars == <<runner, workers, queue, output_table>>

toolVars == <<hdf_input, convert, runs, runnerVars, reader, buffer>>

vars == <<catchment_dbf, riversegments_dbf, nr_compartments, tributaries,
          compartments, routing_compartments, links, upstream, outlet_list,
          upstreamcatchments, step, in_table, hdf_output, connection, program,
          hdf_input, convert, runs, runner, workers, queue, output_table,
          reader, buffer>>

NotBuilt == [built |-> FALSE]

NoFrame == [pc |-> "none"]

NoGroup == [written |-> FALSE]

NoConnection == [pc |-> "none"]

NoFile == <<>>

NoConvert == [pc |-> "none"]

(* ------------------------------- inputs --------------------------------- *)
\* parent-pointer tables over the ids 1..n in which every id drains into a
\* larger id or is a terminal outlet (every forest has such a numbering)
NextDownIds(n) ==
    {f \in [1..n -> (1..n) \cup {Sentinel}] :
        \A i \in 1..n : f[i] = Sentinel \/ f[i] > i}

\* a valid reduced network: the terminal segment t and segments that all
\* drain, inside the network, into t
ValidNetwork(f, N, t) ==
    /\ t \in N
    /\ \A s \in N \ {t} : f[s] \in N

CatchmentTable(n, f, big) ==
    [i \in 1..n |-> [WSO1_ID |-> i, NEXTDOWNID |-> f[i],
                     AREA |-> IF i = big THEN BigArea ELSE 1]]

\* the river-segment table: the rows of the network, the terminal segment
\* with NEXTDOWNID -9999; LENGTH of segment i is i
RiversegmentsTable(n, f, N, t) ==
    LET rows == [i \in 1..n |-> [WSO1_ID |-> i,
                                 NEXTDOWNID |-> IF i = t THEN Sentinel ELSE f[i],
                                 LENGTH |-> i]]
    IN  SelectSeq(rows, LAMBDA r : r.WSO1_ID \in N)

\* id i drains, directly or through other catchments, into id t
RECURSIVE DrainsTo(_, _, _)
DrainsTo(f, i, t) ==
    i = t \/ (f[i] /= Sentinel /\ DrainsTo(f, f[i], t))

\* the inputs of a run: a catchment table, a valid network in it, and at most
\* one enlarged catchment, taken from `enlarged`, among those that drain into
\* the network from outside
InitInputs(n, enlarged) ==
    \E f \in NextDownIds(n), t \in 1..n :
      \E N \in {M \in SUBSET (1..n) : ValidNetwork(f, M, t)} :
        \E big \in {0} \cup {i \in enlarged \ N : DrainsTo(f, i, t)} :
          /\ catchment_dbf = CatchmentTable(n, f, big)
          /\ riversegments_dbf = RiversegmentsTable(n, f, N, t)

\* no object of the routing model is constructed
InitRouting ==
    /\ tributaries = NotBuilt
    /\ compartments = NotBuilt
    /\ routing_compartments = NotBuilt
    /\ links = NotBuilt
    /\ upstream = NoFrame
    /\ upstreamcatchments = NotBuilt
    /\ step = 0
    /\ in_table = <<>>
    /\ hdf_output = NoGroup
    /\ connection = NoConnection

\* no converter is run
ConvertIdle ==
    /\ hdf_input = NoFile
    /\ convert = NoConvert

\* the partitioner has not been run
PartitionerIdle == runs = <<>>

NoRunner == [pc |-> "none"]

\* no ModelRunner is constructed
RunnerIdle ==
    /\ runner = NoRunner
    /\ workers = <<>>
    /\ queue = <<>>
    /\ output_table = <<>>

NoReader == [pc |-> "none"]

\* no CsvReader is constructed
ReaderIdle == reader = NoReader

NoBuffer == [pc |-> "none"]

\* no Buffer_lakes is constructed
BufferIdle == buffer = NoBuffer

InitObjects ==
    /\ InitRouting
    /\ ConvertIdle
    /\ PartitionerIdle
    /\ RunnerIdle
    /\ ReaderIdle
    /\ BufferIdle

\* run_routing.py on the aqu_comp classes, up to the construction of Links
Init ==
    /\ InitInputs(NumCatchments, 1..NumCatchments)
    /\ nr_compartments \in 0..MaxCompartments
    /\ outlet_list = <<>>
    /\ program = "run_routing"
    /\ InitObjects

(* ------------------------------- actions -------------------------------- *)
\* tributaries = Tributaries(config_file)
TributariesInit ==
    /\ program = "run_routing"
    /\ riversegments_dbf /= <<>>
    /\ ~tributaries.built
    /\ tributaries' = TributariesNew(catchment_dbf, riversegments_dbf)
    /\ UNCHANGED <<inputVars, compartments, routing_compartments, links,
                   upstream, upstreamcatchments, aggVars, connection, toolVars>>

\* compartments = Compartments(config_file, tributaries)   (aqu_comp.py)
CompartmentsInit ==
    /\ program = "run_routing"
    /\ tributaries.built
    /\ compartments = NotBuilt
    /\ compartments' = CompartmentsNew(catchment_dbf, riversegments_dbf,
                                       nr_compartments, tributaries)
    /\ UNCHANGED <<inputVars, tributaries, routing_compartments, links,
                   upstream, upstreamcatchments, aggVars, connection, toolVars>>

\* Compartments(config_file, areas_tributaries)   (routing.py)
RoutingCompartmentsInit ==
    /\ tributaries.built
    /\ ~routing_compartments.built
    /\ routing_compartments' =
           RoutingCompartmentsNew(catchment_dbf, riversegments_dbf,
                                  nr_compartments, tributaries.areas_tributaries)
    /\ UNCHANGED <<inputVars, tributaries, compartments, links,
                   upstream, upstreamcatchments, aggVars, connection, toolVars>>

\* links = Links(config_file, tributaries, compartments)
LinksInit ==
    /\ compartments.built
    /\ links = NotBuilt
    /\ links' = LinksNew(catchment_dbf, riversegments_dbf, tributaries, compartments)
    /\ UNCHANGED <<inputVars, tributaries, compartments, routing_compartments,
                   upstream, upstreamcatchments, aggVars, connection, toolVars>>

Next ==
    \/ TributariesInit
    \/ CompartmentsInit
    \/ LinksInit

Spec == Init /\ [][Next]_vars

\* the Compartments class of routing.py on the same inputs
NextRouting ==
    \/ TributariesInit
    \/ RoutingCompartmentsInit

SpecRouting == Init /\ [][NextRouting]_vars

(* --------------------- UpstreamCatchments.upstream_ids ------------------ *)
\* edge tables over the ids 1..n without a cycle: the rows are listed
\* upstream first (every id drains into a larger id) or downstream first
\* (every id drains into a smaller id)
AcyclicTables(n) ==
    NextDownIds(n) \cup
    {f \in [1..n -> (1..n) \cup {Sentinel}] :
        \A i \in 1..n : f[i] = Sentinel \/ f[i] < i}

InitClosure ==
    /\ \E f \in AcyclicTables(NumClosureIds) :
          catchment_dbf = CatchmentTable(NumClosureIds, f, 0)
    /\ riversegments_dbf = <<>>
    /\ nr_compartments = 0
    /\ outlet_list = <<>>
    /\ program = "UpstreamCatchments"
    /\ InitObjects

\* upstream_ids(catchment_dbf_file, id_outlet) up to the loop
UpstreamIdsCall ==
    /\ upstream.pc = "none"
    /\ \E id_outlet \in ToSet(read_ids(catchment_dbf)) :
          upstream' = [pc |-> "while", id_outlet |-> id_outlet,
                       ids |-> <<id_outlet>>, outlets |-> <<id_outlet>>]
    /\ UNCHANGED <<inputVars, tributaries, compartments, routing_compartments,
                   links, upstreamcatchments, aggVars, connection, toolVars>>

\* one pass of `while outlets:`
UpstreamIdsPass ==
    /\ upstream.pc = "while"
    /\ upstream.outlets /= <<>>
    /\ LET ids_upstream ==
               UpstreamFrontier(Connections(catchment_dbf, "up", NoActive),
                                upstream.outlets)
       IN  upstream' = [upstream EXCEPT !.ids = @ \o ids_upstream,
                                        !.outlets = ids_upstream]
    /\ UNCHANGED <<inputVars, tributaries, compartments, routing_compartments,
                   links, upstreamcatchments, aggVars, connection, toolVars>>

\* `return ids`
UpstreamIdsReturn ==
    /\ upstream.pc = "while"
    /\ upstream.outlets = <<>>
    /\ upstream' = [upstream EXCEPT !.pc = "return"]
    /\ UNCHANGED <<inputVars, tributaries, compartments, routing_compartments,
                   links, upstreamcatchments, aggVars, connection, toolVars>>

NextClosure ==
    \/ UpstreamIdsCall
    \/ UpstreamIdsPass
    \/ UpstreamIdsReturn

\* a call of upstream_ids that is scheduled keeps running
SpecClosure == InitClosure /\ [][NextClosure]_vars /\ WF_vars(NextClosure)

(* ------------------------------ aggregation ----------------------------- *)
\* the value columns of one timestep: the discharge and the load of a
\* catchment are multiples of the catchment's own weight 2^(id-1), so that a
\* sum of a column tells over which rows it was taken; local_discharge
\* repeats discharge
Weight(id) == 2 ^ (id - 1)

InTables(ids) ==
    {[i \in DOMAIN ids |->
         [catchment |-> ids[i],
          discharge |-> d * Weight(ids[i]),
          load |-> l * Weight(ids[i]),
          local_discharge |-> d * Weight(ids[i])]] :
       d \in 1..MaxVal, l \in 1..MaxVal}

\* the configuration of run_routing.py, all catchments of AREA 1, or of
\* run_upstreamaggregation.py
InitAgg ==
    /\ \/ /\ InitInputs(NumAggCatchments, {})
          /\ nr_compartments \in 0..MaxCompartments
          /\ outlet_list = <<>>
          /\ program = "run_routing"
       \/ /\ \E f \in NextDownIds(NumAggCatchments) :
                catchment_dbf = CatchmentTable(NumAggCatchments, f, 0)
          /\ riversegments_dbf = <<>>
          /\ nr_compartments = 0
          /\ \E o, p \in 1..NumAggCatchments :
                o <= p /\ outlet_list = IF o = p THEN <<o>> ELSE <<o, p>>
          /\ program = "run_upstreamaggregation"
    /\ InitObjects

\* one pass of the loop of aqu_comp.Aggregate.aggregate, the timestep table
\* read being one of in_tables
AggregateStepOn(in_tables) ==
    /\ links.built
    /\ step < MaxSteps
    /\ \E table \in in_tables :
          /\ in_table' = table
          /\ hdf_output' =
                [written |-> TRUE, step |-> step,
                 lateral_input |->
                     write_lateral_input(table, links.lateral_input,
                                         links.lateral_tributaries),
                 upstream_input |->
                     write_upstream_input(table, links.upstream_input,
                                          links.upstream_tributaries)]
    /\ step' = step + 1
    /\ UNCHANGED <<inputVars, tributaries, compartments, routing_compartments,
                   links, upstream, upstreamcatchments, connection, toolVars>>

\* a timestep in which every catchment has a row
AggregateStep == AggregateStepOn(InTables(read_ids(catchment_dbf)))

\* upstreamcatchments = UpstreamCatchments(catchment_dbf_file, outlet_list)
UpstreamCatchmentsInit ==
    /\ outlet_list /= <<>>
    /\ ~upstreamcatchments.built
    /\ upstreamcatchments' =
           [built |-> TRUE, id_outlets |-> outlet_list,
            ids |-> upstream_dict(catchment_dbf, outlet_list)]
    /\ UNCHANGED <<inputVars, tributaries, compartments, routing_compartments,
                   links, upstream, aggVars, connection, toolVars>>

\* one pass of the loop of upstreamaggregation.Aggregate.aggregate, the
\* timestep table read being one of in_tables
UpstreamAggregateStepOn(in_tables) ==
    /\ upstreamcatchments.built
    /\ step < MaxSteps
    /\ \E table \in in_tables :
          /\ in_table' = table
          /\ hdf_output' =
                [written |-> TRUE, step |-> step,
                 upstream_input |->
                     outlet_upstream_input(table, upstreamcatchments.ids)]
    /\ step' = step + 1
    /\ UNCHANGED <<inputVars, tributaries, compartments, routing_compartments,
                   links, upstream, upstreamcatchments, connection, toolVars>>

\* a timestep in which every catchment has a row
UpstreamAggregateStep ==
    UpstreamAggregateStepOn(InTables(read_ids(catchment_dbf)))

NextAgg ==
    \/ TributariesInit
    \/ CompartmentsInit
    \/ LinksInit
    \/ AggregateStep
    \/ UpstreamCatchmentsInit
    \/ UpstreamAggregateStep

SpecAgg == InitAgg /\ [][NextAgg]_vars

(* ===================== properties of the partition ====================== *)
\* the inputs, read directly from the two tables
CatchmentIds == {catchment_dbf[i].WSO1_ID : i \in DOMAIN catchment_dbf}

NetworkIds == {riversegments_dbf[i].WSO1_ID : i \in DOMAIN riversegments_dbf}

\* next-downstream id of a catchment in the full edge table
NextDown(id) ==
    catchment_dbf[CHOOSE i \in DOMAIN catchment_dbf :
                     catchment_dbf[i].WSO1_ID = id].NEXTDOWNID

\* next-downstream id of a river segment in the river-segment table
SegmentNext(id) ==
    riversegments_dbf[CHOOSE i \in DOMAIN riversegments_dbf :
                         riversegments_dbf[i].WSO1_ID = id].NEXTDOWNID

\* river segments draining directly into river segment s
SegmentsInto(s) == {r \in NetworkIds : SegmentNext(r) = s}

NoDuplicates(list) == Cardinality(ToSet(list)) = Len(list)

\* C5 -- Tributary outlet exclusion: the resolved tributary outlets are
\* exactly the catchments that are no river segments and whose next-downstream
\* id is a river segment, each listed once; none of them is a network id.
TributaryOutletExclusion ==
    tributaries.built =>
        /\ ToSet(tributaries.ids_tributary_outlets) =
              {c \in CatchmentIds \ NetworkIds : NextDown(c) \in NetworkIds}
        /\ ToSet(tributaries.ids_tributary_outlets) \cap NetworkIds = {}
        /\ NoDuplicates(tributaries.ids_tributary_outlets)

\* C5 witness: two outlets resolved while a nested catchment (draining into an
\* outlet, not into the network) and a segment with an upstream segment exist
TributaryOutletWitness ==
    /\ tributaries.built
    /\ Len(tributaries.ids_tributary_outlets) >= 2
    /\ \E c \in CatchmentIds \ NetworkIds :
          NextDown(c) \in ToSet(tributaries.ids_tributary_outlets)
    /\ \E s \in NetworkIds : SegmentsInto(s) /= {}

\* C7 -- Headwater detection: the headwaters reported are exactly the river
\* segments into which no river segment drains directly.
HeadwaterDetection ==
    compartments.built =>
        ToSet(compartments.ids_headwater) =
            {s \in NetworkIds : \A r \in NetworkIds : NextDown(r) /= s}

\* C7 witness: edges a->c, b->c, c->d inside the network: a and b are
\* headwaters, d is not
HeadwaterWitness ==
    /\ compartments.built
    /\ \E a, b, c, d \in NetworkIds :
          /\ a /= b
          /\ NextDown(a) = c /\ NextDown(b) = c /\ NextDown(c) = d
          /\ InList(a, compartments.ids_headwater)
          /\ InList(b, compartments.ids_headwater)
          /\ ~InList(d, compartments.ids_headwater)

\* C6 -- Junction detection: a river segment is reported as a junction exactly
\* when at least two river segments drain directly into it.
JunctionDetection ==
    compartments.built =>
        ToSet(compartments.ids_junctions) =
            {s \in NetworkIds : Cardinality(SegmentsInto(s)) >= 2}

\* C8 -- Degenerate-network clamp: with N the configured nr_compartments and J
\* the number of junctions found, nr_div = N - (2*J + 1); when that is negative
\* a warning is printed, the effective count becomes 2*J + 1 and nr_div 0;
\* nr_div is never negative and the effective count never below 2*J + 1.
NrDivClamp ==
    compartments.built =>
        LET J == Len(compartments.ids_junctions)
            N == nr_compartments
        IN  /\ N - (2 * J + 1) >= 0 =>
                  /\ compartments.nr_div = N - (2 * J + 1)
                  /\ compartments.nr_comp = N
                  /\ ~compartments.warning
            /\ N - (2 * J + 1) < 0 =>
                  /\ compartments.nr_div = 0
                  /\ compartments.nr_comp = 2 * J + 1
                  /\ compartments.warning
            /\ compartments.nr_div >= 0
            /\ compartments.nr_comp >= 2 * J + 1

\* area of the drainage of tributary outlet o, summed from the catchment table
TributaryArea(o) ==
    LET ids == {c \in CatchmentIds :
                  DrainsTo([i \in CatchmentIds |-> NextDown(i)], c, o)}
    IN  SumSeq([i \in DOMAIN catchment_dbf |->
                  IF catchment_dbf[i].WSO1_ID \in ids
                  THEN catchment_dbf[i].AREA ELSE 0])

TributaryOutlets == {c \in CatchmentIds \ NetworkIds : NextDown(c) \in NetworkIds}

\* the sets of n outlets (all outlets when there are fewer) with the largest
\* areas
LargestOutlets(n) ==
    {T \in SUBSET TributaryOutlets :
        /\ Cardinality(T) =
              IF n < Cardinality(TributaryOutlets) THEN n
              ELSE Cardinality(TributaryOutlets)
        /\ \A o \in T, p \in TributaryOutlets \ T :
              TributaryArea(o) >= TributaryArea(p)}

\* the heads a Compartments object adds beyond its junctions and headwaters
AdditionalHeads(comp) ==
    ToSet(comp.ids_advective_inlets) \
        (ToSet(comp.ids_junctions) \cup ToSet(comp.ids_headwater))

\* the claim of C9 for a Compartments object: its additional heads are the
\* inlets of nr_div outlets of largest area, junctions and headwaters left out
IsAdditionalSplits(comp) ==
    \E T \in LargestOutlets(comp.nr_div) :
        AdditionalHeads(comp) =
            {NextDown(o) : o \in T} \
                (ToSet(comp.ids_junctions) \cup ToSet(comp.ids_headwater))

\* C9 -- Additional splits: the compartment heads added beyond junctions and
\* headwaters are the inlets of exactly the nr_div tributary outlets with the
\* largest drainage area, and no headwater inlet is added.  Stated of
\* routing.py's Compartments.
AdditionalSplitsRouting ==
    routing_compartments.built => IsAdditionalSplits(routing_compartments)

\* the same statement of aqu_comp.py's Compartments
AdditionalSplitsAquComp ==
    compartments.built => IsAdditionalSplits(compartments)

\* the list returned by aqu_comp.py's get_advective_inlets holds no headwater
AdvectiveInletsNoHeadwater ==
    compartments.built =>
        ToSet(compartments.ids_advective_inlets) \cap
            ToSet(compartments.ids_headwater) = {}

\* the claim of C10 for a mapping name -> ids built on the heads `heads`
IsCompartmentWalk(comps, heads) ==
    /\ DOMAIN comps = {CName(h) : h \in heads}
    /\ \A h \in heads :
          LET ids == comps[CName(h)]
          IN  /\ ids[1] = h
              /\ \A i \in 1..(Len(ids) - 1) :
                    ids[i] \in NetworkIds /\ SegmentNext(ids[i]) = ids[i + 1]
              /\ ids[Len(ids)] \in NetworkIds
              /\ SegmentNext(ids[Len(ids)]) \in heads \cup {Sentinel}
              /\ \A i \in 2..Len(ids) : ids[i] \notin heads
              /\ ~InList(Sentinel, ids)

\* C10 -- Compartment walk: every compartment is named 'C' + head, starts with
\* its head, continues with each successive downstream segment and ends at the
\* last segment whose downstream id is a head or -9999; no later element is a
\* head and -9999 is never an element.  Stated of routing.py's Compartments.
CompartmentWalkRouting ==
    routing_compartments.built =>
        IsCompartmentWalk(routing_compartments.compartments,
                          ToSet(routing_compartments.ids_up))

\* the same statement of aqu_comp.py's Compartments
CompartmentWalkAquComp ==
    compartments.built =>
        IsCompartmentWalk(compartments.compartments, compartments.ids_up)

\* C1 -- Partition completeness: the compartment id lists together contain
\* every river-segment id exactly once.
PartitionCompleteness ==
    compartments.built =>
        LET comps == compartments.compartments
        IN  /\ UNION {ToSet(comps[name]) : name \in DOMAIN comps} = NetworkIds
            /\ \A name \in DOMAIN comps : NoDuplicates(comps[name])
            /\ \A m, n \in DOMAIN comps :
                  m /= n => ToSet(comps[m]) \cap ToSet(comps[n]) = {}

(* ======================= properties of the closure ====================== *)
\* the ids with a directed path to id o in the full edge table, o included
PathTo(o) ==
    {c \in CatchmentIds :
        DrainsTo([i \in CatchmentIds |-> NextDown(i)], c, o)}

\* C2 -- Closure correctness: on an acyclic edge table upstream_ids returns
\* for every outlet, and the list returned starts with the outlet and holds
\* exactly the ids with a directed path to the outlet, each id once.
ClosureCorrectness ==
    /\ <>(upstream.pc = "return")
    /\ [](upstream.pc = "return" =>
            /\ upstream.ids[1] = upstream.id_outlet
            /\ ToSet(upstream.ids) = PathTo(upstream.id_outlet)
            /\ NoDuplicates(upstream.ids))

\* C2 witness: a chain a->b->c->d with the call for c returned: the list holds
\* a, b and c and leaves out d
ClosureWitness ==
    /\ upstream.pc = "return"
    /\ \E a, b, d \in CatchmentIds :
          /\ NextDown(a) = b
          /\ NextDown(b) = upstream.id_outlet
          /\ NextDown(upstream.id_outlet) = d
          /\ InList(a, upstream.ids)
          /\ ~InList(d, upstream.ids)

(* ===================== properties of the aggregation ==================== *)
\* the value of column col in the row of catchment id of the timestep table
ValueOf(col, id) ==
    in_table[CHOOSE i \in DOMAIN in_table : in_table[i].catchment = id][col]

\* the sum of column col over the rows of the catchments in S
RECURSIVE ColumnSum(_, _)
ColumnSum(col, S) ==
    IF S = {} THEN 0
    ELSE LET id == CHOOSE x \in S : TRUE
         IN  ValueOf(col, id) + ColumnSum(col, S \ {id})

\* tributary outlets draining directly into the head of a compartment, and
\* into one of its other segments
UpstreamOutlets(name) ==
    {o \in TributaryOutlets : NextDown(o) = compartments.compartments[name][1]}

LateralOutlets(name) ==
    {o \in TributaryOutlets :
        InList(NextDown(o), Tail(compartments.compartments[name]))}

\* C3 -- Upstream aggregation semantics: in every timestep every outlet has a
\* record whose load_aggregated is the sum of load over the rows of the ids
\* upstream of the outlet and whose discharge is that of the outlet's own row;
\* a compartment's upstream record sums load over the ids upstream of its
\* upstream tributary outlets and discharge over those outlets' own rows.
UpstreamAggregationSemantics ==
    /\ (upstreamcatchments.built /\ hdf_output.written) =>
          /\ hdf_output.upstream_input.raised = ""
          /\ LET rows == hdf_output.upstream_input.rows
             IN  /\ {rows[i].outlet : i \in DOMAIN rows} = ToSet(outlet_list)
                 /\ \A i \in DOMAIN rows :
                       /\ rows[i].load_aggregated =
                              ColumnSum("load", PathTo(rows[i].outlet))
                       /\ rows[i].discharge =
                              ValueOf("discharge", rows[i].outlet)
    /\ (links.built /\ hdf_output.written) =>
          /\ DOMAIN hdf_output.upstream_input = DOMAIN compartments.compartments
          /\ \A name \in DOMAIN compartments.compartments :
                /\ hdf_output.upstream_input[name].load_aggregated =
                       ColumnSum("load",
                           UNION {PathTo(o) : o \in UpstreamOutlets(name)})
                /\ hdf_output.upstream_input[name].discharge =
                       ColumnSum("discharge", UpstreamOutlets(name))

\* C3 witness: a record written for an outlet z with at least two further ids
\* upstream and a catchment that is not upstream, its discharge below the sum
\* of discharge over the ids upstream
UpstreamAggregationWitness ==
    /\ upstreamcatchments.built
    /\ hdf_output.written
    /\ hdf_output.upstream_input.raised = ""
    /\ \E i \in DOMAIN hdf_output.upstream_input.rows :
          LET r == hdf_output.upstream_input.rows[i]
          IN  /\ Cardinality(PathTo(r.outlet)) >= 3
              /\ PathTo(r.outlet) /= CatchmentIds
              /\ r.discharge < ColumnSum("discharge", PathTo(r.outlet))
              /\ r.load_aggregated > ValueOf("load", r.outlet)

\* C4 as stated -- Lateral aggregation symmetry: in every timestep the lateral
\* record of every compartment with lateral id set S has as discharge the sum
\* of discharge over the rows of S and as load_aggregated the sum of load
\* over the rows of S.
LateralAggregationSymmetry ==
    (links.built /\ hdf_output.written) =>
        \A name \in DOMAIN links.lateral_input :
            LET S == ToSet(links.lateral_input[name])
            IN  /\ hdf_output.lateral_input[name].discharge =
                       ColumnSum("discharge", S)
                /\ hdf_output.lateral_input[name].load_aggregated =
                       ColumnSum("load", S)

\* C4 -- Lateral aggregation: in every timestep the lateral record of every
\* compartment has as load_aggregated the sum of load over the rows of its
\* lateral id set (its own segments and the ids upstream of its lateral
\* tributary outlets) and as discharge the sum of discharge over the rows of
\* its lateral tributary outlets only.
LateralAggregationOutlets ==
    (links.built /\ hdf_output.written) =>
        /\ DOMAIN hdf_output.lateral_input = DOMAIN compartments.compartments
        /\ \A name \in DOMAIN compartments.compartments :
              LET S == ToSet(compartments.compartments[name]) \cup
                       UNION {PathTo(o) : o \in LateralOutlets(name)}
              IN  /\ ToSet(links.lateral_input[name]) = S
                  /\ hdf_output.lateral_input[name].load_aggregated =
                         ColumnSum("load", S)
                  /\ hdf_output.lateral_input[name].discharge =
                         ColumnSum("discharge", LateralOutlets(name))

\* C4 witness: a lateral record written for a compartment with a lateral
\* tributary outlet that has a catchment upstream of it
LateralAggregationWitness ==
    /\ links.built
    /\ hdf_output.written
    /\ \E name \in DOMAIN compartments.compartments :
          \E o \in LateralOutlets(name) :
              /\ Cardinality(PathTo(o)) >= 2
              /\ hdf_output.lateral_input[name].discharge = ValueOf("discharge", o)
              /\ hdf_output.lateral_input[name].load_aggregated >
                     ColumnSum("load", PathTo(o))

(* ------------------- the Connections object on its own ------------------- *)
NumConnRows == 3

\* ids of the rows of an edge table; some are digit-substrings of others
Labels == <<1, 2, 12, 21, 121>>

\* edge tables of at most n rows: row i has id Labels[i] and drains into
\* any id of the table or into the sentinel; the empty table is included
EdgeTables(n) ==
    UNION { { [i \in 1..m |-> [WSO1_ID |-> Labels[i], NEXTDOWNID |-> f[i],
                               AREA |-> 1]] :
              f \in [1..m -> {Labels[j] : j \in 1..m} \cup {Sentinel}] } :
            m \in 0..n }

Directions == {"up", "down", " up", "down ", "", "left", "UP"}

\* the active_ids arguments: None, an ascending list of ids (possibly
\* empty), or one id
ActiveArgs(n) ==
    {NoActive}
    \cup { ActiveList(SetToSeq(S)) : S \in SUBSET {Labels[j] : j \in 1..n} }
    \cup { ActiveStr(Labels[j]) : j \in 1..n }

InitConn ==
    /\ catchment_dbf \in EdgeTables(NumConnRows)
    /\ riversegments_dbf = <<>>
    /\ nr_compartments = 0
    /\ outlet_list = <<>>
    /\ program = "Connections"
    /\ InitObjects

\* Connections.__init__: the direction is validated, then the table is read
ConnectionsInit ==
    /\ connection.pc = "none"
    /\ \E direction \in Directions, active_ids \in ActiveArgs(NumConnRows) :
        LET cols == set_direction(direction)
        IN  connection' =
              IF cols.raised /= ""
              THEN [pc |-> "raised", raised |-> cols.raised,
                    direction |-> direction, active_ids |-> active_ids,
                    ids |-> <<>>, next_ids |-> <<>>, read |-> FALSE,
                    connections |-> <<>>]
              ELSE [pc |-> "constructed", raised |-> "",
                    direction |-> direction, active_ids |-> active_ids,
                    ids |-> read_id_association(catchment_dbf, cols.id_name),
                    next_ids |-> read_id_association(catchment_dbf, cols.next_id_name),
                    read |-> TRUE, connections |-> <<>>]
    /\ UNCHANGED <<inputVars, tributaries, compartments, routing_compartments,
                   links, upstream, upstreamcatchments, aggVars, toolVars>>

\* first access of the property Connections.connections
ConnectionsGet ==
    /\ connection.pc = "constructed"
    /\ connection' =
         [connection EXCEPT
            !.pc = "built",
            !.connections = Connections(catchment_dbf, connection.direction,
                                        connection.active_ids)]
    /\ UNCHANGED <<inputVars, tributaries, compartments, routing_compartments,
                   links, upstream, upstreamcatchments, aggVars, toolVars>>

NextConn == ConnectionsInit \/ ConnectionsGet

SpecConn == InitConn /\ [][NextConn]_vars

(* ----------------------- properties of Connections ----------------------- *)
UpDirections == {"up", " up"}

DownDirections == {"down", "down "}

\* the ids of the rows draining into key, in table order
RowsInto(key) ==
    LET sel == SelectSeq(catchment_dbf, LAMBDA r : r.NEXTDOWNID = key)
    IN  [i \in DOMAIN sel |-> sel[i].WSO1_ID]

\* what the connectivity index is without a filter: key -> list, as a function
UnfilteredIndex ==
    IF connection.direction \in UpDirections
    THEN [key \in {catchment_dbf[i].NEXTDOWNID : i \in DOMAIN catchment_dbf}
            |-> RowsInto(key)]
    ELSE [key \in CatchmentIds |-> <<NextDown(key)>>]

\* the built map read as a function from its keys
BuiltIndex ==
    [key \in ToSet(DictKeys(connection.connections))
        |-> DictGet(connection.connections, key)]

\* C15 -- Connectivity index: without a filter, direction "up" maps every
\* next-downstream id of the table to the list of the ids draining into it,
\* in table order; direction "down" maps every id to the one-element list of
\* its next-downstream id; the empty table gives the empty map. No key
\* occurs twice.
ConnectivityIndex ==
    (connection.pc = "built" /\ connection.active_ids = NoActive) =>
        /\ NoDuplicates(DictKeys(connection.connections))
        /\ BuiltIndex = UnfilteredIndex
        /\ (catchment_dbf = <<>> => connection.connections = <<>>)

\* an "up" index with a key that has two upstream ids, no filter
ConnectivityIndexWitness ==
    /\ connection.pc = "built"
    /\ connection.active_ids = NoActive
    /\ connection.direction = "up"
    /\ \E i \in DOMAIN connection.connections :
          Len(connection.connections[i].v) = 2

\* C16 -- Active-id filter: with an active-id filter (a list of ids, one id,
\* or an empty collection) the keys of the map are exactly the unfiltered
\* keys that are equal to a member of the filter, and the values are the
\* unfiltered ones.
ActiveIdFilter ==
    (connection.pc = "built" /\ connection.active_ids /= NoActive) =>
        BuiltIndex =
            [key \in DOMAIN UnfilteredIndex \cap ToSet(connection.active_ids.ids)
                |-> UnfilteredIndex[key]]

\* C20 -- Direction validation: a direction other than "up" or "down" makes
\* the constructor fail with ConfigurationError before the table is read
\* and before any map is built.
DirectionValidation ==
    (connection.pc /= "none" /\ connection.direction \notin {"up", "down"}) =>
        /\ connection.pc = "raised"
        /\ connection.raised = "ConfigurationError"
        /\ ~connection.read

\* what holds: a direction that, with its leading and trailing blanks
\* removed, is neither "up" nor "down" makes the constructor fail with
\* NameError before the table is read, and no map is ever built; any other
\* direction constructs the object and reads the table.
DirectionValidationNameError ==
    connection.pc /= "none" =>
        IF connection.direction \in UpDirections \cup DownDirections
        THEN connection.pc \in {"constructed", "built"} /\ connection.read
                /\ connection.raised = ""
        ELSE connection.pc = "raised" /\ connection.raised = "NameError"
                /\ ~connection.read /\ connection.connections = <<>>

\* the constructor has failed on the direction "left" over a table with rows
DirectionValidationWitness ==
    /\ connection.pc = "raised"
    /\ connection.direction = "left"
    /\ Len(catchment_dbf) = NumConnRows

(* ----------------- run_routing.py with ids of several digits ------------- *)
NumLinkCatchments == 4

\* the labellings of the rows 1..n: the first n labels in order, rotated
LabelMaps(n) ==
    {[i \in 1..n |-> Labels[((i + r - 1) % n) + 1]] : r \in 0..(n - 1)}

\* a table with its ids renamed; the sentinel stays
Relabel(table, lab) ==
    [i \in DOMAIN table |->
        [table[i] EXCEPT !.WSO1_ID = lab[@],
                         !.NEXTDOWNID = IF @ = Sentinel THEN @ ELSE lab[@]]]

\* the inputs of Init over NumLinkCatchments catchments, under every labelling
InitLinks ==
    /\ \E f \in NextDownIds(NumLinkCatchments), t \in 1..NumLinkCatchments,
          lab \in LabelMaps(NumLinkCatchments) :
         \E N \in {M \in SUBSET (1..NumLinkCatchments) : ValidNetwork(f, M, t)} :
            /\ catchment_dbf =
                  Relabel(CatchmentTable(NumLinkCatchments, f, 0), lab)
            /\ riversegments_dbf =
                  Relabel(RiversegmentsTable(NumLinkCatchments, f, N, t), lab)
    /\ nr_compartments \in 0..MaxCompartments
    /\ outlet_list = <<>>
    /\ program = "run_routing"
    /\ InitObjects

SpecLinks == InitLinks /\ [][Next]_vars

(* --------------------------- properties of Links ------------------------- *)
\* head and last segment of a built compartment
HeadOf(name) == compartments.compartments[name][1]

LastOf(name) ==
    compartments.compartments[name][Len(compartments.compartments[name])]

\* the tributary outlets: catchments outside the network that drain into it
OutletsInto(S) ==
    {o \in CatchmentIds \ NetworkIds : NextDown(o) \in S}

\* the compartments that contain river segment s
OwnersOf(s) ==
    {c \in DOMAIN compartments.compartments :
        InList(s, compartments.compartments[c])}

\* C11 -- Compartment links: the link table holds exactly one row for every
\* compartment whose last segment drains into a river segment: named "L" +
\* head id, from that compartment, to the existing compartment that contains
\* the downstream id; a compartment draining out of the network has no row.
CompartmentLinks ==
    links.built =>
        links.compartment_links =
            {[Name |-> <<"L", HeadOf(p[1])>>, fromCompart |-> p[1],
              toCompart |-> p[2]] :
                p \in {q \in (DOMAIN compartments.compartments)
                              \X (DOMAIN compartments.compartments) :
                        /\ SegmentNext(LastOf(q[1])) \in NetworkIds
                        /\ q[2] \in OwnersOf(SegmentNext(LastOf(q[1])))}}

\* C12 -- Upstream tributaries: for every compartment the list holds exactly
\* the tributary outlets whose next-downstream id is the head of the
\* compartment, each once, and no outlet draining into another id.
UpstreamTributaries ==
    links.built =>
        \A name \in DOMAIN compartments.compartments :
            /\ ToSet(links.upstream_tributaries[name]) = OutletsInto({HeadOf(name)})
            /\ NoDuplicates(links.upstream_tributaries[name])

\* C13 -- Lateral tributaries: for every compartment the list holds exactly
\* the tributary outlets whose next-downstream id is one of the ids of the
\* compartment after the head, each once; for a compartment of its head only
\* the list is empty and the constructor has not failed.
LateralTributaries ==
    links.built =>
        /\ DOMAIN links.lateral_tributaries = DOMAIN compartments.compartments
        /\ \A name \in DOMAIN compartments.compartments :
            /\ ToSet(links.lateral_tributaries[name]) =
                   OutletsInto(ToSet(Tail(compartments.compartments[name])))
            /\ NoDuplicates(links.lateral_tributaries[name])
            /\ Len(compartments.compartments[name]) = 1 =>
                   links.lateral_tributaries[name] = <<>>

\* the Links object exists, one compartment consists of its head only and
\* another one has a lateral tributary
LateralTributariesWitness ==
    /\ links.built
    /\ \E name \in DOMAIN compartments.compartments :
          Len(compartments.compartments[name]) = 1
    /\ \E name \in DOMAIN compartments.compartments :
          links.lateral_tributaries[name] /= <<>>

\* the upstream closure ids_tributaries[t] of a tributary outlet t
ClosureOf(t) == ToSet(DictGet(tributaries.ids_tributaries, t))

\* C14 -- Input id sets: the Links object is built and, for every
\* compartment, upstream_input is the union of the upstream closures of the
\* tributary outlets draining into its head, and lateral_input is the union
\* of the closures of the outlets draining into its other segments together
\* with the compartment's own river segments.
InputIdSets ==
    (compartments.built /\ links /= NotBuilt) =>
        /\ links.built
        /\ \A name \in DOMAIN compartments.compartments :
            /\ ToSet(links.upstream_input[name]) =
                 UNION {ClosureOf(t) : t \in OutletsInto({HeadOf(name)})}
            /\ ToSet(links.lateral_input[name]) =
                 UNION {ClosureOf(t) : t \in
                     OutletsInto(ToSet(Tail(compartments.compartments[name])))}
                 \cup ToSet(compartments.compartments[name])

\* what holds for the input id sets: relative to the tributary lists the
\* object holds, whenever the constructor returns
InputIdSetsOfLists ==
    links.built =>
        \A name \in DOMAIN compartments.compartments :
            /\ ToSet(links.upstream_input[name]) =
                 UNION {ClosureOf(t) : t \in ToSet(links.upstream_tributaries[name])}
            /\ ToSet(links.lateral_input[name]) =
                 UNION {ClosureOf(t) : t \in ToSet(links.lateral_tributaries[name])}
                 \cup ToSet(compartments.compartments[name])

(* ------------------ timestep tables with a missing row ------------------- *)
NumMissCatchments == 3

\* the timestep tables over ids with all values of multiplier 1, complete or
\* with the row of one catchment missing
IncompleteInTables(ids) ==
    LET full == [i \in DOMAIN ids |->
                    [catchment |-> ids[i], discharge |-> Weight(ids[i]),
                     load |-> Weight(ids[i]),
                     local_discharge |-> Weight(ids[i])]]
    IN  {SelectSeq(full, LAMBDA r : r.catchment /= m) : m \in {0} \cup ToSet(ids)}

\* the configurations of run_routing.py, of LoadAggregation (routing.py) and
\* of run_upstreamaggregation.py
InitMissing ==
    /\ \/ /\ InitInputs(NumMissCatchments, {})
          /\ nr_compartments \in 0..MaxCompartments
          /\ outlet_list = <<>>
          /\ program = "run_routing"
       \/ /\ InitInputs(NumMissCatchments, {})
          /\ nr_compartments = 0
          /\ outlet_list = <<>>
          /\ program = "LoadAggregation"
       \/ /\ \E f \in NextDownIds(NumMissCatchments) :
                catchment_dbf = CatchmentTable(NumMissCatchments, f, 0)
          /\ riversegments_dbf = <<>>
          /\ nr_compartments = 0
          /\ \E o \in 1..NumMissCatchments : outlet_list = <<o>>
          /\ program = "run_upstreamaggregation"
    /\ InitObjects

\* LoadAggregation.__init__: self.tributaries = Tributaries(config_file)
LoadAggregationInit ==
    /\ program = "LoadAggregation"
    /\ ~tributaries.built
    /\ tributaries' = TributariesNew(catchment_dbf, riversegments_dbf)
    /\ UNCHANGED <<inputVars, compartments, routing_compartments, links,
                   upstream, upstreamcatchments, aggVars, connection, toolVars>>

\* one pass of the loop of LoadAggregation.aggregate
LoadAggregationStep ==
    /\ program = "LoadAggregation"
    /\ tributaries.built
    /\ step < MaxSteps
    /\ \E table \in IncompleteInTables(read_ids(catchment_dbf)) :
          /\ in_table' = table
          /\ hdf_output' =
                [written |-> TRUE, step |-> step,
                 values |-> routing_write_output(table,
                                tributaries.ids_tributary_outlets,
                                tributaries.ids_tributaries)]
    /\ step' = step + 1
    /\ UNCHANGED <<inputVars, tributaries, compartments, routing_compartments,
                   links, upstream, upstreamcatchments, connection, toolVars>>

\* a timestep of aqu_comp.Aggregate in which a row may be missing
MissingAggregateStep ==
    AggregateStepOn(IncompleteInTables(read_ids(catchment_dbf)))

\* a timestep of upstreamaggregation.Aggregate in which a row may be missing
MissingUpstreamAggregateStep ==
    UpstreamAggregateStepOn(IncompleteInTables(read_ids(catchment_dbf)))

NextMissing ==
    \/ TributariesInit
    \/ CompartmentsInit
    \/ LinksInit
    \/ MissingAggregateStep
    \/ LoadAggregationInit
    \/ LoadAggregationStep
    \/ UpstreamCatchmentsInit
    \/ MissingUpstreamAggregateStep

SpecMissing == InitMissing /\ [][NextMissing]_vars

(* --------------------- properties of a missing row ----------------------- *)
\* the catchments that have a row in the timestep table read last
PresentIds == {in_table[i].catchment : i \in DOMAIN in_table}

\* the outlets whose discharge the aggregation of the running program reads
DischargeOutlets ==
    IF program = "run_upstreamaggregation" THEN ToSet(outlet_list)
    ELSE IF program = "LoadAggregation"
    THEN ToSet(tributaries.ids_tributary_outlets)
    ELSE UNION {ToSet(links.upstream_tributaries[name])
                    \cup ToSet(links.lateral_tributaries[name]) :
                name \in DOMAIN links.upstream_tributaries}

\* the aggregation of the last timestep has failed with an exception
StepFailed ==
    IF program = "run_upstreamaggregation"
    THEN hdf_output.upstream_input.raised /= ""
    ELSE IF program = "LoadAggregation" THEN hdf_output.values.raised /= ""
    ELSE FALSE

\* C17 -- Missing outlet is fatal: when an outlet whose discharge is read has
\* no row in the timestep table, the aggregation of that timestep fails; no
\* record is written with a zero or substituted discharge and the outlet is
\* not passed over.
MissingOutletFatal ==
    (hdf_output.written /\ DischargeOutlets \ PresentIds /= {}) => StepFailed

\* what holds: upstreamaggregation.Aggregate fails with ValueError exactly
\* when the row of an outlet is missing
MissingOutletFatalUpstream ==
    (hdf_output.written /\ program = "run_upstreamaggregation") =>
        (hdf_output.upstream_input.raised = "ValueError"
            <=> DischargeOutlets \ PresentIds /= {})

\* aqu_comp.Aggregate has written a record although the row of the only
\* upstream tributary outlet of the compartment is missing
MissingOutletZeroWritten ==
    /\ hdf_output.written
    /\ program = "run_routing"
    /\ \E name \in DOMAIN links.upstream_tributaries :
          /\ links.upstream_tributaries[name] /= <<>>
          /\ ToSet(links.upstream_tributaries[name]) \cap PresentIds = {}
          /\ hdf_output.upstream_input[name].discharge = 0

\* LoadAggregation has written no record for an outlet whose row is missing
MissingOutletSkipped ==
    /\ hdf_output.written
    /\ program = "LoadAggregation"
    /\ hdf_output.values.raised = ""
    /\ \E o \in DischargeOutlets \ PresentIds :
          \A i \in DOMAIN hdf_output.values.rows :
              hdf_output.values.rows[i].catchment_outlet /= o

(* ------------------- upstream_ids on tables with cycles ------------------ *)
NumCycleIds == 3

\* the length of ids beyond which the model does not follow the loop further
MaxIds == 2 * NumCycleIds

\* all next-downstream tables over 1..n, cycles and self-loops included
CyclicTables(n) == [1..n -> (1..n) \cup {Sentinel}]

InitCycle ==
    /\ \E f \in CyclicTables(NumCycleIds) :
          catchment_dbf = CatchmentTable(NumCycleIds, f, 0)
    /\ riversegments_dbf = <<>>
    /\ nr_compartments = 0
    /\ outlet_list = <<>>
    /\ program = "UpstreamCatchments"
    /\ InitObjects

\* one pass of `while outlets:`, followed while ids is shorter than MaxIds
UpstreamIdsPassBounded ==
    /\ upstream.pc = "while"
    /\ Len(upstream.ids) < MaxIds
    /\ UpstreamIdsPass

NextCycle ==
    \/ UpstreamIdsCall
    \/ UpstreamIdsPassBounded
    \/ UpstreamIdsReturn

SpecCycle == InitCycle /\ [][NextCycle]_vars

\* id reaches target in exactly k >= 1 steps of the next-downstream relation
RECURSIVE ReachesIn(_, _, _)
ReachesIn(id, target, k) ==
    /\ NextDown(id) /= Sentinel
    /\ IF k = 1 THEN NextDown(id) = target
       ELSE ReachesIn(NextDown(id), target, k - 1)

\* the outlet lies on a cycle of the edge table; as every id has one
\* next-downstream id, a cycle upstream of the outlet runs through the outlet
CycleUpstream(id_outlet) ==
    \E k \in 1..Len(catchment_dbf) : ReachesIn(id_outlet, id_outlet, k)

\* C18 -- Cycle handling: with a cycle among the ids upstream of the outlet,
\* upstream_ids does not expand without end: no id is expanded a second time,
\* so that ids never holds an id twice, and the call ends by failing with
\* MalformedNetworkError, never by returning a list.
CycleHandling ==
    (upstream.pc /= "none" /\ CycleUpstream(upstream.id_outlet)) =>
        /\ NoDuplicates(upstream.ids)
        /\ upstream.pc \in {"while", "MalformedNetworkError"}

\* what holds: on a cycle the frontier is never empty, so the loop never
\* reaches its return statement and ids grows with every pass
CycleNeverReturns ==
    (upstream.pc /= "none" /\ CycleUpstream(upstream.id_outlet)) =>
        /\ upstream.pc = "while"
        /\ upstream.outlets /= <<>>

\* the loop has come round a cycle: the frontier is the outlet again
CycleComesRound ==
    /\ upstream.pc = "while"
    /\ Len(upstream.ids) > 1
    /\ InList(upstream.id_outlet, upstream.outlets)

(* ---------------------- malformed river networks ------------------------- *)
NumMalformedCatchments == 4

\* river-segment tables over the segments N of a catchment table f: a
\* segment whose next-downstream id is a segment keeps it; any other segment
\* is either a terminal segment (-9999) or keeps a next-downstream id that
\* is no river segment (out says which)
LooseRiversegmentsTable(n, f, N, out) ==
    LET rows == [i \in 1..n |->
                    [WSO1_ID |-> i,
                     NEXTDOWNID |-> IF f[i] \in N \/ i \in out THEN f[i]
                                    ELSE Sentinel,
                     LENGTH |-> i]]
    IN  SelectSeq(rows, LAMBDA r : r.WSO1_ID \in N)

InitMalformed ==
    /\ \E f \in NextDownIds(NumMalformedCatchments) :
        \E N \in SUBSET (1..NumMalformedCatchments) \ {{}} :
          \E out \in SUBSET {i \in N : f[i] \notin N /\ f[i] /= Sentinel} :
            /\ catchment_dbf = CatchmentTable(NumMalformedCatchments, f, 0)
            /\ riversegments_dbf =
                  LooseRiversegmentsTable(NumMalformedCatchments, f, N, out)
    /\ nr_compartments \in 0..MaxCompartments
    /\ outlet_list = <<>>
    /\ program = "run_routing"
    /\ InitObjects

NextMalformed ==
    \/ TributariesInit
    \/ CompartmentsInit

SpecMalformed == InitMalformed /\ [][NextMalformed]_vars

\* the terminal segments of the river-segment table
TerminalSegments == {s \in NetworkIds : SegmentNext(s) = Sentinel}

\* the segments whose next-downstream id is neither a segment nor -9999
DisconnectedSegments ==
    {s \in NetworkIds : SegmentNext(s) \notin NetworkIds \cup {Sentinel}}

MalformedNetwork ==
    Cardinality(TerminalSegments) > 1 \/ DisconnectedSegments /= {}

\* the id lists of the built compartments partition the river segments
IsPartition ==
    /\ UNION {ToSet(compartments.compartments[c]) :
                c \in DOMAIN compartments.compartments} = NetworkIds
    /\ \A s \in NetworkIds : Cardinality(OwnersOf(s)) = 1
    /\ \A c \in DOMAIN compartments.compartments :
          NoDuplicates(compartments.compartments[c])

\* C19 -- Partition invariant check: on a malformed network (a disconnected
\* segment or more than one terminal segment) a compartment mapping is
\* returned only if its id lists partition the river segments; otherwise the
\* constructor fails, and it fails with PartitionInvariantError.
PartitionInvariantCheck ==
    (MalformedNetwork /\ compartments /= NotBuilt) =>
        IF compartments.built THEN IsPartition
        ELSE compartments.raised = "PartitionInvariantError"

\* what holds: with a disconnected segment the constructor fails with
\* TypeError; without one it returns a mapping
DisconnectedSegmentRaises ==
    compartments /= NotBuilt =>
        IF DisconnectedSegments /= {}
        THEN ~compartments.built /\ compartments.raised = "TypeError"
        ELSE compartments.built

\* a mapping that is no partition has been returned for a network with two
\* terminal segments
MalformedMappingReturned ==
    /\ compartments.built
    /\ Cardinality(TerminalSegments) > 1
    /\ ~IsPartition

(* ======================================================================= *)
(* The reshape converters: convert_hdf_aqu.Convert,                         *)
(* convert_hdf_upstreamaggregation.Convert and                              *)
(* convert_hdf_tributaries.Convert.  hdf_input is the sequence of the       *)
(* groups step_0 .. step_<N-1>; a group maps a table name to its rows.      *)
(* The tables links, parameterization and initial_conditions are copied     *)
(* unchanged and are left out.                                              *)
(* ======================================================================= *)
\* timestep groups of the file that is converted
NumPivotSteps == 2
\* units (compartments, outlets or catchments) of a timestep table
NumPivotUnits == 2
\* most rows one unit has in one timestep table
MaxUnitRows == 2

ConvertPrograms ==
    {"convert_hdf_aqu", "convert_hdf_upstreamaggregation",
     "convert_hdf_tributaries"}

\* the tables of a group step_<n> that a converter reads, in the order
\* Convert.convert reads them
InputTypes(prog) ==
    IF prog = "convert_hdf_aqu" THEN <<"lateral_input", "upstream_input">>
    ELSE IF prog = "convert_hdf_upstreamaggregation" THEN <<"upstream_input">>
    ELSE <<"values">>

\* the column that names the unit of a row
KeyColumn(prog) ==
    IF prog = "convert_hdf_aqu" THEN "compartment"
    ELSE IF prog = "convert_hdf_upstreamaggregation" THEN "outlet"
    ELSE "catchment_outlet"

\* len(fnmatch.filter(node_names, 'step_*'))
count_steps(input_file) == Len(input_file)

\* node_0.col(<key column>) of the first table of step_0
get_compartments(input_file, prog) ==
    LET node_0 == input_file[1][InputTypes(prog)[1]]
    IN  [i \in DOMAIN node_0 |-> node_0[i][KeyColumn(prog)]]

\* a selection by position: the first row of the table, whatever its unit
read_where_head(table, key, comp) == SubSeq(table, 1, 1)

\* in_table.read_where('<key column>==comp')
read_where(table, key, comp) ==
    SelectSeq(table, LAMBDA r : r[key] = comp)

\* the row of one timestep in the table of one unit
PivotRow(prog, n, r) ==
    IF prog = "convert_hdf_aqu"
    THEN [t |-> n, discharge |-> r.discharge,
          load_aggregated |-> r.load_aggregated]
    ELSE IF prog = "convert_hdf_upstreamaggregation"
    THEN [t |-> n, discharge |-> r.discharge,
          load_aggregated |-> r.load_aggregated,
          local_discharge_aggregated |-> r.local_discharge_aggregated]
    ELSE [discharge |-> r.discharge, load_aggregated |-> r.load_aggregated]

\* Convert._get_values: the selection of a timestep is assigned to an array
\* of one element, which numpy refuses (ValueError, could not broadcast)
\* unless the selection holds exactly one row
RECURSIVE GetValuesLoop(_, _, _, _, _, _, _)
GetValuesLoop(input_file, steps, prog, comp, input_type, n, values) ==
    IF n = steps
    THEN [raised |-> "", values |-> values]
    ELSE LET matched == read_where(input_file[n + 1][input_type],
                                   KeyColumn(prog), comp)
         IN  IF Len(matched) /= 1
             THEN [raised |-> "ValueError", values |-> values]
             ELSE GetValuesLoop(input_file, steps, prog, comp, input_type,
                                n + 1,
                                Append(values, PivotRow(prog, n, matched[1])))

get_values(input_file, steps, prog, comp, input_type) ==
    GetValuesLoop(input_file, steps, prog, comp, input_type, 0, <<>>)

\* the tables of one group, written one input type after the other until
\* _get_values raises
RECURSIVE WriteTables(_, _, _, _, _, _)
WriteTables(input_file, steps, prog, comp, k, tables) ==
    IF k > Len(InputTypes(prog))
    THEN [raised |-> "", tables |-> tables]
    ELSE LET got == get_values(input_file, steps, prog, comp, InputTypes(prog)[k])
         IN  IF got.raised /= ""
             THEN [raised |-> got.raised, tables |-> tables]
             ELSE WriteTables(input_file, steps, prog, comp, k + 1,
                              Append(tables, [k |-> InputTypes(prog)[k],
                                              v |-> got.values]))

\* the name of the group of one unit
GroupName(prog, comp) ==
    IF prog = "convert_hdf_tributaries" THEN <<"catch_", comp>> ELSE <<comp>>

HasGroup(groups, name) == \E i \in DOMAIN groups : groups[i].name = name

\* one pass of the loop of Convert.convert over the unit `comp`
ConvertOne(input_file, steps, prog, comp, groups) ==
    LET name == GroupName(prog, comp)
        written == WriteTables(input_file, steps, prog, comp, 1, <<>>)
    IN  IF prog = "convert_hdf_tributaries"
        THEN \* _get_values, then create_group and create_table
             IF written.raised /= ""
             THEN [raised |-> written.raised, groups |-> groups]
             ELSE IF HasGroup(groups, name)
             THEN [raised |-> "NodeError", groups |-> groups]
             ELSE [raised |-> "",
                   groups |-> Append(groups, [name |-> name,
                                              tables |-> written.tables])]
        ELSE \* create_group, then _get_values and create_table per input type
             IF HasGroup(groups, name)
             THEN [raised |-> "NodeError", groups |-> groups]
             ELSE [raised |-> written.raised,
                   groups |-> Append(groups, [name |-> name,
                                              tables |-> written.tables])]

(* ---------------------- the converters as a program --------------------- *)
PivotUnits == 1..NumPivotUnits

\* the orders in which a timestep table can list the units
UnitOrders ==
    {p \in [PivotUnits -> PivotUnits] :
        \A i, j \in PivotUnits : p[i] = p[j] => i = j}

RECURSIVE Repeat(_, _)
Repeat(x, c) == IF c = 0 THEN <<>> ELSE <<x>> \o Repeat(x, c - 1)

\* the unit column of a table that lists the units in `order`, unit u on
\* cnt[u] rows
RECURSIVE UnitColumn(_, _, _)
UnitColumn(order, cnt, i) ==
    IF i > Len(order) THEN <<>>
    ELSE Repeat(order[i], cnt[order[i]]) \o UnitColumn(order, cnt, i + 1)

\* the value columns of row j of table k of step_<n>: no two rows of a file
\* carry the same discharge or the same load
RowValue(n, k, j) == 100 * (n + 1) + 10 * k + j

StepTable(prog, n, k, order, cnt) ==
    LET units == UnitColumn(order, cnt, 1)
    IN  [j \in DOMAIN units |->
            IF prog = "convert_hdf_upstreamaggregation"
            THEN (KeyColumn(prog) :> units[j]) @@
                 [discharge |-> RowValue(n, k, j),
                  load_aggregated |-> 1000 + RowValue(n, k, j),
                  local_discharge_aggregated |-> 2000 + RowValue(n, k, j)]
            ELSE (KeyColumn(prog) :> units[j]) @@
                 [discharge |-> RowValue(n, k, j),
                  load_aggregated |-> 1000 + RowValue(n, k, j)]]

\* the places where one unit may have no row or several rows: a timestep, a
\* table of it, a unit and the number of its rows; <<>> is a file in which
\* every table lists every unit once, as the aggregators write it
Defects(prog, steps) ==
    {<<>>} \cup
    {<<n, k, u, c>> : n \in 0..(steps - 1), k \in DOMAIN InputTypes(prog),
                      u \in PivotUnits, c \in (0..MaxUnitRows) \ {1}}

RowCount(defect, n, k) ==
    [u \in PivotUnits |->
        IF defect /= <<>> /\ defect[1] = n /\ defect[2] = k /\ defect[3] = u
        THEN defect[4] ELSE 1]

StepsFile(prog, steps, orders, defect) ==
    [m \in 1..steps |->
        [name \in ToSet(InputTypes(prog)) |->
            LET k == CHOOSE i \in DOMAIN InputTypes(prog) :
                         InputTypes(prog)[i] = name
            IN  StepTable(prog, m - 1, k, orders[m], RowCount(defect, m - 1, k))]]

InitPivot ==
    /\ program \in ConvertPrograms
    /\ \E steps \in 0..NumPivotSteps :
         \E orders \in [1..steps -> UnitOrders], defect \in Defects(program, steps) :
            hdf_input = StepsFile(program, steps, orders, defect)
    /\ catchment_dbf = <<>>
    /\ riversegments_dbf = <<>>
    /\ nr_compartments = 0
    /\ outlet_list = <<>>
    /\ InitRouting
    /\ convert = NoConvert
    /\ PartitionerIdle
    /\ RunnerIdle
    /\ ReaderIdle
    /\ BufferIdle

\* Convert.run up to the call of convert: the files are opened, the steps
\* are counted and the units are read from step_0
ConvertRun ==
    /\ program \in ConvertPrograms
    /\ convert = NoConvert
    /\ convert' =
         IF count_steps(hdf_input) = 0
         THEN \* get_node('/', 'step_0/...') finds no node
              [pc |-> "raised", raised |-> "NoSuchNodeError", steps |-> 0,
               compartments |-> <<>>, i |-> 1, groups |-> <<>>]
         ELSE [pc |-> IF get_compartments(hdf_input, program) = <<>>
                      THEN "done" ELSE "convert",
               raised |-> "",
               steps |-> count_steps(hdf_input),
               compartments |-> get_compartments(hdf_input, program),
               i |-> 1, groups |-> <<>>]
    /\ UNCHANGED <<inputVars, tributaries, compartments, routing_compartments,
                   links, upstream, upstreamcatchments, aggVars, connection,
                   hdf_input, runs, runnerVars, reader, buffer>>

\* one pass of `for comp in self.compartments` in Convert.convert; after the
\* last pass run returns and the files are closed
ConvertCompartment ==
    /\ convert.pc = "convert"
    /\ convert.i <= Len(convert.compartments)
    /\ LET one == ConvertOne(hdf_input, convert.steps, program,
                             convert.compartments[convert.i], convert.groups)
       IN  convert' =
             [convert EXCEPT
                !.groups = one.groups,
                !.raised = one.raised,
                !.i = IF one.raised = "" THEN convert.i + 1 ELSE convert.i,
                !.pc = IF one.raised /= "" THEN "raised"
                       ELSE IF convert.i = Len(convert.compartments)
                       THEN "done" ELSE "convert"]
    /\ UNCHANGED <<inputVars, tributaries, compartments, routing_compartments,
                   links, upstream, upstreamcatchments, aggVars, connection,
                   hdf_input, runs, runnerVars, reader, buffer>>

NextPivot == ConvertRun \/ ConvertCompartment

SpecPivot == InitPivot /\ [][NextPivot]_vars

(* ------------------------- properties: the pivot ------------------------ *)
\* the rows of table `input_type` of step_<n> that belong to unit u
RecordsOf(n, input_type, u) ==
    {j \in DOMAIN hdf_input[n + 1][input_type] :
        hdf_input[n + 1][input_type][j][KeyColumn(program)] = u}

\* the units Convert pivots: the unit column of the first table of step_0
ListedUnits ==
    IF hdf_input = <<>> THEN {}
    ELSE {hdf_input[1][InputTypes(program)[1]][j][KeyColumn(program)] :
             j \in DOMAIN hdf_input[1][InputTypes(program)[1]]}

\* table v is the pivot of table `input_type` for unit u: one row per
\* timestep, row n with time index n and the values of the record of u in
\* step_<n>
IsPivotOf(v, input_type, u) ==
    /\ Len(v) = Len(hdf_input)
    /\ \A n \in 0..(Len(hdf_input) - 1) :
         /\ v[n + 1].t = n
         /\ \E j \in RecordsOf(n, input_type, u) :
              /\ v[n + 1].discharge = hdf_input[n + 1][input_type][j].discharge
              /\ v[n + 1].load_aggregated =
                     hdf_input[n + 1][input_type][j].load_aggregated

TimedPrograms == {"convert_hdf_aqu", "convert_hdf_upstreamaggregation"}

\* C21 -- pivot round trip: every per-unit table that Convert writes has one
\* row per timestep, in time order, row t carrying the time index t and the
\* discharge and load of the unit's record in the table of step t; when
\* convert returns, every listed unit has such a table for every input type
PivotRoundTrip ==
    (program \in TimedPrograms /\ convert.pc \in {"convert", "raised", "done"}) =>
        /\ \A i \in DOMAIN convert.groups :
             \A k \in DOMAIN convert.groups[i].tables :
                IsPivotOf(convert.groups[i].tables[k].v,
                          convert.groups[i].tables[k].k,
                          convert.groups[i].name[1])
        /\ convert.pc = "done" =>
             \A u \in ListedUnits :
                \E i \in DOMAIN convert.groups :
                   /\ convert.groups[i].name = <<u>>
                   /\ Len(convert.groups[i].tables) = Len(InputTypes(program))
                   /\ \A k \in DOMAIN InputTypes(program) :
                         convert.groups[i].tables[k].k = InputTypes(program)[k]

\* a file of NumPivotSteps timesteps whose tables list the units in
\* different orders has been converted for all its units
PivotRoundTripWitness ==
    /\ program = "convert_hdf_aqu"
    /\ convert.pc = "done"
    /\ Len(hdf_input) = NumPivotSteps
    /\ Len(convert.groups) = NumPivotUnits
    /\ hdf_input[1]["upstream_input"][1]["compartment"] /=
           hdf_input[2]["upstream_input"][1]["compartment"]
    /\ \A i \in DOMAIN convert.groups : Len(convert.groups[i].tables) = 2

\* unit u has exactly c rows in some table of some timestep that Convert reads
SomeTableHolds(u, c) ==
    \E n \in 0..(Len(hdf_input) - 1), k \in DOMAIN InputTypes(program) :
        Cardinality(RecordsOf(n, InputTypes(program)[k], u)) = c

\* unit u has more than one row in some table of some timestep
SomeTableRepeats(u) ==
    \E n \in 0..(Len(hdf_input) - 1), k \in DOMAIN InputTypes(program) :
        Cardinality(RecordsOf(n, InputTypes(program)[k], u)) > 1

\* C22 -- duplicate aggregation: the pivot of a file with timesteps fails
\* only with DuplicateAggregationError, and only when a table of a timestep
\* holds more than one row for a unit; tables with zero rows or one row for
\* a unit are accepted
DuplicateAggregation ==
    (convert.pc = "raised" /\ Len(hdf_input) > 0) =>
        /\ convert.raised = "DuplicateAggregationError"
        /\ \E u \in ListedUnits : SomeTableRepeats(u)

\* what holds: Convert fails with ValueError at the first listed unit that
\* has no row or several rows in a table of a timestep, writes no table of
\* that input type for it, and returns only if every listed unit has exactly
\* one row in every table of every timestep
ExactlyOneRowOrValueError ==
    /\ (convert.pc = "raised" /\ Len(hdf_input) > 0) =>
          /\ convert.raised = "ValueError"
          /\ \E c \in (0..MaxUnitRows) \ {1} :
                SomeTableHolds(convert.compartments[convert.i], c)
    /\ convert.pc = "done" =>
          \A u \in ListedUnits : ~\E c \in (0..MaxUnitRows) \ {1} : SomeTableHolds(u, c)

(* ======================================================================= *)
(* Two runs of the partitioner on the same inputs.  list(set(ids_up))       *)
(* (aqu_comp.py 420) comes in the iteration order of a python set of        *)
(* strings, which differs from one interpreter run to the next; every other *)
(* collection of Compartments is a list or a dict in insertion order.       *)
(* ======================================================================= *)
\* rows of the catchment table of the determinism specification
NumDetCatchments == 4

\* the orders in which list(set(...)) can list the set S
ListsOfSet(S) ==
    {p \in [1..Cardinality(S) -> S] :
        \A i, j \in 1..Cardinality(S) : p[i] = p[j] => i = j}

\* the local `outlets` of Compartments.get_advective_inlets
selected_outlets(areas_trib, n_div) ==
    LET s_outlets == ToSet(DictKeys(areas_trib))
        keys == SelectSeq(DictKeys(areas_trib), LAMBDA key : key \in s_outlets)
    IN  Slice0(SortedDesc(keys, areas_trib), n_div)

\* Compartments.compartments over the list ids_up: dict(zip(comp_name, comp_ids))
compartments_in_order(riversegments_file, ids_riversegments, heads) ==
    LET conn == Connections(riversegments_file, "down", ActiveList(ids_riversegments))
    IN  [i \in DOMAIN heads |->
            [k |-> CName(heads[i]),
             v |-> CompartmentWalk(conn, ToSet(heads), <<heads[i]>>,
                                   DictGet(conn, heads[i])[1])]]

\* Compartments.__init__ in a run in which list(set(ids_up)) is `heads`
CompartmentsRun(catchment_dbf_file, riversegments_file, config_nr, trib, heads) ==
    LET segs == read_ids(riversegments_file)
        junctions == get_junctions(catchment_dbf_file, segs)
        headwater == get_headwater(riversegments_file, segs)
        div == nr_div(config_nr + 1, junctions)
    IN  IF compartments_raises(riversegments_file, segs, ToSet(heads))
        THEN [built |-> FALSE, raised |-> "TypeError"]
        ELSE [built |-> TRUE,
              nr_div |-> div.nr_div,
              outlets |-> selected_outlets(trib.areas_tributaries, div.nr_div),
              ids_advective_inlets |->
                  get_advective_inlets(catchment_dbf_file, trib.areas_tributaries,
                                       headwater, div.nr_div),
              ids_up |-> heads,
              compartments |-> compartments_in_order(riversegments_file, segs, heads)]

\* the set ids_up of a run
HeadSet(catchment_dbf_file, riversegments_file, config_nr, trib) ==
    LET segs == read_ids(riversegments_file)
        junctions == get_junctions(catchment_dbf_file, segs)
        headwater == get_headwater(riversegments_file, segs)
        div == nr_div(config_nr + 1, junctions)
    IN  ids_up(get_advective_inlets(catchment_dbf_file, trib.areas_tributaries,
                                    headwater, div.nr_div),
               headwater, junctions)

InitDet ==
    /\ InitInputs(NumDetCatchments, 1..NumDetCatchments)
    /\ nr_compartments \in 0..MaxCompartments
    /\ outlet_list = <<>>
    /\ program = "run_routing"
    /\ InitObjects

\* Compartments(config_file, tributaries) in a fresh run of run_routing
PartitionerRun ==
    /\ tributaries.built
    /\ Len(runs) < 2
    /\ \E heads \in ListsOfSet(HeadSet(catchment_dbf, riversegments_dbf,
                                       nr_compartments, tributaries)) :
          runs' = Append(runs, CompartmentsRun(catchment_dbf, riversegments_dbf,
                                               nr_compartments, tributaries, heads))
    /\ UNCHANGED <<inputVars, tributaries, compartments, routing_compartments,
                   links, upstream, upstreamcatchments, aggVars, connection,
                   hdf_input, convert, runnerVars, reader, buffer>>

NextDet == TributariesInit \/ PartitionerRun

SpecDet == InitDet /\ [][NextDet]_vars

(* ------------------- properties: partitioner determinism ---------------- *)
\* a dict as a mapping: the set of its items
Items(d) == {<<d[i].k, d[i].v>> : i \in DOMAIN d}

\* position of outlet o in the tributary areas handed to the partitioner
InputPosition(o) ==
    CHOOSE i \in DOMAIN tributaries.areas_tributaries :
        tributaries.areas_tributaries[i].k = o

AreaOf(o) == tributaries.areas_tributaries[InputPosition(o)].v

\* C23 -- partitioner determinism: two runs on the same network, tributary
\* areas and target count give the same mapping compartment name -> ordered
\* id list, and an outlet is selected for an additional split before every
\* outlet of smaller area and before every later outlet of equal area
PartitionerDeterminism ==
    /\ \A i, j \in DOMAIN runs :
          /\ runs[i].built = runs[j].built
          /\ runs[i].built => Items(runs[i].compartments) = Items(runs[j].compartments)
    /\ \A i \in DOMAIN runs :
          runs[i].built =>
             \A a \in ToSet(runs[i].outlets) :
                \A b \in ToSet(DictKeys(tributaries.areas_tributaries))
                         \ ToSet(runs[i].outlets) :
                   \/ AreaOf(a) > AreaOf(b)
                   \/ AreaOf(a) = AreaOf(b) /\ InputPosition(a) < InputPosition(b)

\* two runs that list the heads in different orders, with a tie between a
\* selected outlet and an outlet that is not selected
PartitionerDeterminismWitness ==
    /\ Len(runs) = 2
    /\ runs[1].built /\ runs[2].built
    /\ runs[1].ids_up /= runs[2].ids_up
    /\ \E a \in ToSet(runs[1].outlets) :
          \E b \in ToSet(DictKeys(tributaries.areas_tributaries))
                   \ ToSet(runs[1].outlets) : AreaOf(a) = AreaOf(b)

(* ======================================================================= *)
(* catchment_model.model_runner: ModelRunner.run_all and the Worker         *)
(* threads.  The main thread takes one step per access to a thread, to the  *)
(* queue or to the iterator of ids; a Worker takes one step when it puts    *)
(* its result and one when its thread ends.                                 *)
(* ======================================================================= *)
\* catchment groups catch_<id> of the input file
NumRunIds == 3
\* largest number_of_workers
MaxWorkers == 2

\* d[key] = value on a dict in insertion order
SetItem(d, key, value) ==
    IF HasKey(d, key)
    THEN [i \in DOMAIN d |-> IF d[i].k = key THEN [k |-> key, v |-> value] ELSE d[i]]
    ELSE Append(d, [k |-> key, v |-> value])

\* find_ids(self.hdf_input): the sorted ids of the groups catch_<id>
find_ids(n) == [i \in 1..n |-> i]

\* ModelRunner._prepare_tmp: the paths worker_0 .. worker_<n-1>
worker_paths(number_of_workers) == [i \in 1..number_of_workers |-> i - 1]

\* the output a catchment model computes for id_
OutOf(id) == <<"out", id>>

\* the local id_ of _run_all before its first assignment (ids are positive)
Unbound == 0

\* an is_alive() that reports every thread as ended
is_alive_never(worker) == FALSE

\* Thread.is_alive(): the thread is started and run() has neither returned
\* nor raised
is_alive(worker) == worker.state \in {"running", "put"}

\* the state after ModelRunner(config_file): both files are open, the worker
\* paths exist, the output table and the queue are empty
InitRunner ==
    /\ \E n \in 0..NumRunIds, number_of_workers \in 0..MaxWorkers :
          runner = [pc |-> "run_all",
                    number_of_workers |-> number_of_workers,
                    nids |-> n,
                    all_ids |-> <<>>,
                    free_paths |-> <<>>,
                    active_workers |-> <<>>,
                    done |-> FALSE,
                    counter |-> 0,
                    id_ |-> Unbound,
                    k |-> 1,
                    raised |-> "",
                    hdf_input_open |-> TRUE,
                    hdf_output_open |-> TRUE]
    /\ workers = <<>>
    /\ queue = <<>>
    /\ output_table = <<>>
    /\ catchment_dbf = <<>>
    /\ riversegments_dbf = <<>>
    /\ nr_compartments = 0
    /\ outlet_list = <<>>
    /\ program = "ModelRunner"
    /\ InitRouting
    /\ ConvertIdle
    /\ PartitionerIdle
    /\ ReaderIdle
    /\ BufferIdle

RunnerUnchanged ==
    UNCHANGED <<inputVars, tributaries, compartments, routing_compartments,
                links, upstream, upstreamcatchments, aggVars, connection,
                hdf_input, convert, runs, reader, buffer>>

\* run_all enters _run_all: lines 132-139
RunAllStart ==
    /\ runner.pc = "run_all"
    /\ runner' = [runner EXCEPT
                    !.pc = "for",
                    !.all_ids = find_ids(runner.nids),
                    !.free_paths = worker_paths(runner.number_of_workers),
                    !.k = 1]
    /\ UNCHANGED <<workers, queue, output_table>>
    /\ RunnerUnchanged

\* one pass of `for path in free_paths` (lines 142-158), or its end
StartWorker ==
    /\ runner.pc = "for"
    /\ IF runner.k > Len(runner.free_paths)
       THEN /\ runner' = [runner EXCEPT !.pc = "is_alive", !.k = 1,
                                        !.free_paths = <<>>]
            /\ UNCHANGED workers
       ELSE IF runner.all_ids = <<>>
       THEN \* StopIteration
            /\ runner' = [runner EXCEPT !.done = TRUE, !.pc = "is_alive",
                                        !.k = 1, !.free_paths = <<>>]
            /\ UNCHANGED workers
       ELSE /\ workers' = Append(workers, [id |-> Head(runner.all_ids),
                                           path |-> runner.free_paths[runner.k],
                                           state |-> "running"])
            /\ runner' = [runner EXCEPT
                            !.all_ids = Tail(runner.all_ids),
                            !.counter = runner.counter + 1,
                            !.id_ = Head(runner.all_ids),
                            !.active_workers =
                                SetItem(runner.active_workers,
                                        runner.free_paths[runner.k],
                                        Len(workers) + 1),
                            !.k = runner.k + 1]
    /\ UNCHANGED <<queue, output_table>>
    /\ RunnerUnchanged

\* one pass of `for path, worker in active_workers.items()` (lines 160-163),
\* or its end
CheckAlive ==
    /\ runner.pc = "is_alive"
    /\ IF runner.k > Len(runner.active_workers)
       THEN runner' = [runner EXCEPT !.pc = "drain"]
       ELSE runner' =
              [runner EXCEPT
                 !.k = runner.k + 1,
                 !.free_paths =
                     IF is_alive(workers[runner.active_workers[runner.k].v])
                     THEN runner.free_paths
                     ELSE Append(runner.free_paths,
                                 runner.active_workers[runner.k].k)]
    /\ UNCHANGED <<workers, queue, output_table>>
    /\ RunnerUnchanged

\* ModelRunner._write_output(id_, out): the rows of one result
write_output(table, item) == Append(table, [catchment |-> item[1], out |-> item[2]])

\* one pass of `while not self.queue.empty()` (lines 164-165), or its end and
\* `if done: break`
Drain ==
    /\ runner.pc = "drain"
    /\ IF queue /= <<>>
       THEN /\ output_table' = write_output(output_table, Head(queue))
            /\ queue' = Tail(queue)
            /\ UNCHANGED runner
       ELSE /\ runner' = [runner EXCEPT
                            !.pc = IF runner.done THEN "join" ELSE "for",
                            !.k = 1]
            /\ UNCHANGED <<queue, output_table>>
    /\ UNCHANGED workers
    /\ RunnerUnchanged

\* one pass of `for worker in active_workers.values(): worker.join()`
\* (lines 168-169), or its end
Join ==
    /\ runner.pc = "join"
    /\ IF runner.k > Len(runner.active_workers)
       THEN runner' = [runner EXCEPT !.pc = "last_drain"]
       ELSE /\ ~is_alive(workers[runner.active_workers[runner.k].v])
            /\ runner' = [runner EXCEPT !.k = runner.k + 1]
    /\ UNCHANGED <<workers, queue, output_table>>
    /\ RunnerUnchanged

\* one pass of the second `while not self.queue.empty()` (lines 170-171), or
\* its end and prog.show_progress(counter, additional=id_, force=True), which
\* reads the local id_ that only a pass of the for loop binds
LastDrain ==
    /\ runner.pc = "last_drain"
    /\ IF queue /= <<>>
       THEN /\ output_table' = write_output(output_table, Head(queue))
            /\ queue' = Tail(queue)
            /\ UNCHANGED runner
       ELSE /\ runner' = [runner EXCEPT
                            !.pc = "finally",
                            !.raised = IF runner.id_ = Unbound
                                       THEN "UnboundLocalError" ELSE ""]
            /\ UNCHANGED <<queue, output_table>>
    /\ UNCHANGED workers
    /\ RunnerUnchanged

\* the finally clause of run_all: _close_files, then the return of run_all or
\* the exception of _run_all
CloseFiles ==
    /\ runner.pc = "finally"
    /\ runner' = [runner EXCEPT
                    !.hdf_input_open = FALSE,
                    !.hdf_output_open = FALSE,
                    !.pc = IF runner.raised = "" THEN "returned" ELSE "raised"]
    /\ UNCHANGED <<workers, queue, output_table>>
    /\ RunnerUnchanged

\* Worker._read_output reads the output file and puts (id, out) on the queue
WorkerPut(w) ==
    /\ workers[w].state = "running"
    /\ queue' = Append(queue, <<workers[w].id, OutOf(workers[w].id)>>)
    /\ workers' = [workers EXCEPT ![w].state = "put"]
    /\ UNCHANGED <<runner, output_table>>
    /\ RunnerUnchanged

\* the external program fails: Worker._execute prints the CalledProcessError
\* and goes on, pandas.read_csv in _read_output finds no output file and
\* raises, and the thread ends without a result
WorkerFail(w) ==
    /\ workers[w].state = "running"
    /\ workers' = [workers EXCEPT ![w].state = "failed"]
    /\ UNCHANGED <<runner, queue, output_table>>
    /\ RunnerUnchanged

\* Worker.run returns after the files of the run are removed
WorkerExit(w) ==
    /\ workers[w].state = "put"
    /\ workers' = [workers EXCEPT ![w].state = "exited"]
    /\ UNCHANGED <<runner, queue, output_table>>
    /\ RunnerUnchanged

MainThread ==
    \/ RunAllStart
    \/ StartWorker
    \/ CheckAlive
    \/ Drain
    \/ Join
    \/ LastDrain
    \/ CloseFiles

WorkerThread(w) == WorkerPut(w) \/ WorkerFail(w) \/ WorkerExit(w)

NextRunner ==
    \/ MainThread
    \/ \E w \in DOMAIN workers : WorkerThread(w)

SpecRunner == InitRunner /\ [][NextRunner]_vars

\* the scheduler lets the main thread run, and every started worker thread
\* eventually exits
SpecRunnerFair ==
    /\ InitRunner
    /\ [][NextRunner]_vars
    /\ WF_vars(MainThread)
    /\ \A w \in 1..NumRunIds : WF_vars(w \in DOMAIN workers /\ WorkerThread(w))

(* ---------------------- properties: the model runner -------------------- *)
\* the threads that are started and have not ended
LiveWorkers == {w \in DOMAIN workers : workers[w].state \in {"running", "put"}}

\* the step starts a Worker
WorkerStarted == Len(workers') = Len(workers) + 1

\* C24 -- bounded worker slots: at every moment at most number_of_workers
\* workers are alive and no two of them use the same worker path, and a
\* worker is started on a path only if no worker was started on it before or
\* the workers started on it before are no longer alive
BoundedWorkerSlots ==
    /\ [](/\ Cardinality(LiveWorkers) <= runner.number_of_workers
          /\ \A v, w \in LiveWorkers :
                workers[v].path = workers[w].path => v = w)
    /\ [][WorkerStarted =>
            \A v \in DOMAIN workers :
               workers[v].path = workers'[Len(workers')].path => v \notin LiveWorkers]_vars

\* every slot holds a live worker and one of the slots is in its second use
BoundedWorkerSlotsWitness ==
    /\ runner.number_of_workers = MaxWorkers
    /\ Cardinality(LiveWorkers) = MaxWorkers
    /\ \E v \in DOMAIN workers, w \in LiveWorkers :
          /\ v < w
          /\ workers[v].path = workers[w].path

\* _run_all has returned without an exception
RunAllReturned == runner.pc \in {"finally", "returned"} /\ runner.raised = ""

WorkerIds == {workers[w].id : w \in DOMAIN workers}

OutputIds == {output_table[i].catchment : i \in DOMAIN output_table}

\* C30 -- exactly-once dispatch and collection: no id is handed to two
\* workers and no result is written twice, and when _run_all returns the
\* queue is empty, every id of the input file was handed to a worker, every
\* started worker has put its result and the output holds the rows of every
\* input id
ExactlyOnceDispatch ==
    /\ \A v, w \in DOMAIN workers : workers[v].id = workers[w].id => v = w
    /\ \A i, j \in DOMAIN output_table :
          output_table[i].catchment = output_table[j].catchment => i = j
    /\ RunAllReturned =>
          /\ queue = <<>>
          /\ WorkerIds = 1..runner.nids
          /\ \A w \in DOMAIN workers : workers[w].state = "exited"
          /\ OutputIds = 1..runner.nids

\* what holds: no id is handed to two workers, and when _run_all returns the
\* queue is empty, every id was handed to a worker and the output holds,
\* once each, the results of the workers whose external program succeeded
ExactlyOnceOfResults ==
    /\ \A v, w \in DOMAIN workers : workers[v].id = workers[w].id => v = w
    /\ \A i, j \in DOMAIN output_table :
          output_table[i].catchment = output_table[j].catchment => i = j
    /\ \A i \in DOMAIN output_table :
          output_table[i].out = OutOf(output_table[i].catchment)
    /\ RunAllReturned =>
          /\ queue = <<>>
          /\ WorkerIds = 1..runner.nids
          /\ \A w \in DOMAIN workers : workers[w].state \in {"exited", "failed"}
          /\ OutputIds = {workers[w].id : w \in {v \in DOMAIN workers :
                                                   workers[v].state = "exited"}}

\* run_all has been left, by return or by exception
RunAllLeft == runner.pc \in {"returned", "raised"}

FilesClosed == ~runner.hdf_input_open /\ ~runner.hdf_output_open

\* C26 -- runner shutdown: with at least one worker slot and worker threads
\* that all exit, run_all eventually returns, and whenever run_all is left,
\* by return or by exception, both files are closed
RunnerShutdown ==
    /\ runner.number_of_workers >= 1 => <>(runner.pc = "returned")
    /\ [](RunAllLeft => FilesClosed)

\* what holds: with at least one worker slot run_all is eventually left with
\* both files closed, by return if the input file holds a catchment and by
\* UnboundLocalError if it holds none
RunnerShutdownOrRaise ==
    /\ runner.number_of_workers >= 1 => <>RunAllLeft
    /\ (runner.number_of_workers >= 1 /\ runner.nids >= 1) => <>(runner.pc = "returned")
    /\ [](runner.pc = "raised" => runner.nids = 0 /\ runner.raised = "UnboundLocalError")
    /\ [](RunAllLeft => FilesClosed)

(* ======================================================================= *)
(* tools.csv_reader.CsvReader.  A file object is its header (the ids in     *)
(* column order), its data lines and the number of lines read so far; a     *)
(* date string is the sequence of its blank-separated parts, <<day, hour>>  *)
(* in an hourly file and <<day>> in a daily file.                           *)
(* ======================================================================= *)
\* files handed to CsvReader
NumCsvFiles == 2
\* ids of a header
NumCsvIds == 2
\* data lines of a file
NumCsvRows == 2

\* the time step that _find_time_steps gives a file of daily values
DailyStep == 24

\* make_time_hourly and make_time_daily: seconds since the first day
make_time_hourly(parts) == 86400 * parts[1] + 3600 * parts[2]

make_time_daily(parts) == 86400 * parts[1]

\* CsvReader._find_time_steps: 1 for a date of two parts, 24 for a date of
\* one part
find_time_steps(fobj) ==
    IF Len(fobj.lines[1].date) = 2 THEN 1 ELSE DailyStep

\* CsvReader._get_ids: dict id -> position in the header
RECURSIVE GetIdsLoop(_, _, _)
GetIdsLoop(header, pos, d) ==
    IF pos >= Len(header) THEN d
    ELSE GetIdsLoop(header, pos + 1, SetItem(d, header[pos + 1], pos))

get_ids(fobj) == GetIdsLoop(fobj.header, 0, <<>>)

\* CsvReader._process_line: the date and the dict id -> value of one line;
\* values[index] is entries[1:][index]
process_line(line, ids, daily) ==
    [date |-> IF daily THEN make_time_daily(line.date)
              ELSE make_time_hourly(line.date),
     ids_values |-> [i \in DOMAIN ids |->
                        [k |-> ids[i].k, v |-> line.values[ids[i].v + 1]]]]

\* the value columns of line r of file f: no two entries of the files are
\* equal
CsvValue(f, r, c) == 100 * f + 10 * r + c

CsvIds == 1..NumCsvIds

\* the headers: every list of distinct ids
CsvHeaders ==
    UNION {{h \in [1..n -> CsvIds] : \A i, j \in 1..n : h[i] = h[j] => i = j} :
              n \in 1..NumCsvIds}

\* file f with the given header: hourly lines of the first day, or daily
\* lines of successive days
CsvFile(f, header, daily) ==
    [header |-> header,
     lines |-> [r \in 1..NumCsvRows |->
                  [date |-> IF daily THEN <<r - 1>> ELSE <<0, r - 1>>,
                   values |-> [c \in DOMAIN header |-> CsvValue(f, r, c)]]],
     pos |-> 0]

InitCsv ==
    /\ \E n \in 1..NumCsvFiles :
         \E headers \in [1..n -> CsvHeaders], daily \in [1..n -> BOOLEAN] :
            reader = [pc |-> "args",
                      fobjs |-> [f \in 1..n |-> CsvFile(f, headers[f], daily[f])]]
    /\ catchment_dbf = <<>>
    /\ riversegments_dbf = <<>>
    /\ nr_compartments = 0
    /\ outlet_list = <<>>
    /\ program = "CsvReader"
    /\ InitRouting
    /\ ConvertIdle
    /\ PartitionerIdle
    /\ RunnerIdle
    /\ BufferIdle

ReaderUnchanged ==
    UNCHANGED <<inputVars, tributaries, compartments, routing_compartments,
                links, upstream, upstreamcatchments, aggVars, connection,
                hdf_input, convert, runs, runnerVars, buffer>>

\* CsvReader(*file_objs)
CsvReaderInit ==
    /\ reader.pc = "args"
    /\ LET fobjs == reader.fobjs
           all_ids == [f \in DOMAIN fobjs |-> get_ids(fobjs[f])]
           first_ids == ToSet(DictKeys(all_ids[1]))
           match == \A f \in DOMAIN fobjs : ToSet(DictKeys(all_ids[f])) = first_ids
       IN  reader' =
             [pc |-> IF match THEN "constructed" ELSE "raised",
              raised |-> IF match THEN "" ELSE "ValueError",
              \* _find_time_steps seeks back, _get_ids reads the header
              fobjs |-> [f \in DOMAIN fobjs |-> [fobjs[f] EXCEPT !.pos = 1]],
              time_steps |-> [f \in DOMAIN fobjs |-> find_time_steps(fobjs[f])],
              all_ids |-> all_ids,
              ids |-> IF match THEN first_ids ELSE {},
              last_values |-> [f \in DOMAIN fobjs |-> <<>>],
              counter |-> 0,
              res |-> <<>>]
    /\ ReaderUnchanged

\* next(reader)
CsvReaderNext ==
    /\ reader.pc = "constructed"
    /\ LET fobjs == reader.fobjs
           read_next == [f \in DOMAIN fobjs |->
                            reader.counter % reader.time_steps[f] = 0]
           exhausted == {f \in DOMAIN fobjs :
                            read_next[f] /\ fobjs[f].pos > Len(fobjs[f].lines)}
           \* the files whose next line is read before next(fobj) raises
           read == {f \in DOMAIN fobjs :
                       read_next[f] /\ \A g \in exhausted : f < g}
           processed ==
               [f \in DOMAIN fobjs |->
                   IF f \in read
                   THEN process_line(fobjs[f].lines[fobjs[f].pos],
                                     reader.all_ids[f],
                                     reader.time_steps[f] = DailyStep)
                   ELSE [date |-> 0, ids_values |-> <<>>]]
           values == [f \in DOMAIN fobjs |->
                         IF f \in read THEN processed[f].ids_values
                         ELSE reader.last_values[f]]
           \* the local `date` after the loop over the lines
           last == CHOOSE f \in read : \A g \in read : g <= f
           advanced == [f \in DOMAIN fobjs |->
                           IF f \in read
                           THEN [fobjs[f] EXCEPT !.pos = fobjs[f].pos + 1]
                           ELSE fobjs[f]]
       IN  IF exhausted /= {}
           THEN reader' = [reader EXCEPT !.pc = "raised",
                                         !.raised = "StopIteration",
                                         !.counter = reader.counter + 1,
                                         !.fobjs = advanced]
           ELSE IF read = {}
           THEN reader' = [reader EXCEPT !.pc = "raised",
                                         !.raised = "UnboundLocalError",
                                         !.counter = reader.counter + 1]
           ELSE reader' =
                  [reader EXCEPT
                     !.counter = reader.counter + 1,
                     !.fobjs = advanced,
                     !.last_values = values,
                     !.res = [id \in reader.ids |->
                                <<processed[last].date>> \o
                                [f \in DOMAIN fobjs |-> DictGet(values[f], id)]]]
    /\ ReaderUnchanged

NextCsv == CsvReaderInit \/ CsvReaderNext

SpecCsv == InitCsv /\ [][NextCsv]_vars

(* ------------------------ properties: CsvReader ------------------------- *)
\* column of id in the header of file f
ColumnOf(f, id) ==
    CHOOSE c \in DOMAIN reader.fobjs[f].header : reader.fobjs[f].header[c] = id

HeaderIds(f) == ToSet(reader.fobjs[f].header)

\* the timestamp of data line r of file f
CsvTimeOf(f, r) ==
    IF Len(reader.fobjs[f].lines[r].date) = 2
    THEN 3600 * (r - 1) ELSE 86400 * (r - 1)

\* the result of the k-th call is the merge of line k of every file
MergesLine(k) ==
    \A id \in HeaderIds(1) :
       /\ Len(reader.res[id]) = 1 + Len(reader.fobjs)
       /\ \E f \in DOMAIN reader.fobjs : reader.res[id][1] = CsvTimeOf(f, k)
       /\ \A f \in DOMAIN reader.fobjs :
             reader.res[id][1 + f] = CsvValue(f, k, ColumnOf(f, id))

\* C25 -- CsvReader merge by id: files whose headers hold different id sets
\* are rejected with ValueError by the constructor and no others are; for
\* files with the same id set the k-th call of next() returns, for every
\* id, the timestamp of line k followed by the values of line k of every
\* file, in file order, taken from the column the id has in that file
CsvMergeById ==
    /\ (reader.pc = "raised" /\ reader.raised = "ValueError") =>
          \E f \in DOMAIN reader.fobjs : HeaderIds(f) /= HeaderIds(1)
    /\ reader.pc = "constructed" =>
          /\ \A f \in DOMAIN reader.fobjs : HeaderIds(f) = HeaderIds(1)
          /\ reader.counter >= 1 => MergesLine(reader.counter)
    /\ (reader.pc = "raised" /\ reader.raised /= "ValueError") =>
          /\ reader.raised = "StopIteration"
          /\ reader.counter > NumCsvRows

AllHourly == \A f \in DOMAIN reader.fobjs : reader.time_steps[f] = 1

\* what holds: the claim for files of hourly values; a file of daily values
\* is read on every 24th call only, so that the second call returns its
\* first line again or, without an hourly file, raises UnboundLocalError
CsvMergeByIdHourly ==
    /\ (reader.pc = "raised" /\ reader.raised = "ValueError") =>
          \E f \in DOMAIN reader.fobjs : HeaderIds(f) /= HeaderIds(1)
    /\ reader.pc = "constructed" =>
          /\ \A f \in DOMAIN reader.fobjs : HeaderIds(f) = HeaderIds(1)
          /\ (AllHourly /\ reader.counter >= 1) => MergesLine(reader.counter)
    /\ (reader.pc = "raised" /\ reader.raised = "StopIteration") =>
          reader.counter > NumCsvRows
    /\ (reader.pc = "raised" /\ reader.raised = "UnboundLocalError") =>
          /\ reader.counter = 2
          /\ \A f \in DOMAIN reader.fobjs : reader.time_steps[f] = DailyStep

(* ======================================================================= *)
(* routing_model.buffer_lakes.Buffer_lakes.sum_load                         *)
(* ======================================================================= *)
\* rows of the catchment table of the lake specification
NumLakeCatchments == 3
\* timesteps of the input file of the lake specification
MaxLakeSteps == 2

\* dict.fromkeys(ids, 0)
RECURSIVE FromKeys(_, _)
FromKeys(ids, value) ==
    IF ids = <<>> THEN <<>>
    ELSE SetItem(FromKeys(SubSeq(ids, 1, Len(ids) - 1), value),
                 ids[Len(ids)], value)

\* a sum of two Counters that keeps the entries of count zero
CounterAddAll(a, b) ==
    [i \in DOMAIN a |->
        [k |-> a[i].k,
         v |-> a[i].v + (IF HasKey(b, a[i].k) THEN DictGet(b, a[i].k) ELSE 0)]]
    \o SelectSeq(b, LAMBDA e : ~HasKey(a, e.k))

\* Counter(a) + Counter(b): the counts are added and only the entries with a
\* positive count are kept
CounterAdd(a, b) ==
    SelectSeq(CounterAddAll(a, b), LAMBDA e : e.v > 0)

\* Buffer_lakes.lake_dict: the ids upstream of the lake outlets
lake_dict(catchment_dbf_file, lake_outlets) ==
    Chain(DictValues(upstream_dict(catchment_dbf_file, lake_outlets)))

\* loads.set_index('catchment')[column].to_dict() for the rows whose
\* catchment is one of ids
ColumnDict(table, column, ids) ==
    LET loads == SelectSeq(table, LAMBDA r : InList(r.catchment, ids))
    IN  [i \in DOMAIN loads |-> [k |-> loads[i].catchment, v |-> loads[i][column]]]

\* one pass of the loop of sum_load (lines 46-52) on the dict d
sum_load_step(d, table, ids) ==
    LET load_add == ColumnDict(table, "load", ids)
        discharge_add == ColumnDict(table, "local_discharge", ids)
        d1 == SetItem(d, "load_sum", CounterAdd(DictGet(d, "loads"), load_add))
    IN  SetItem(d1, "local_discharge_sum",
                CounterAdd(DictGet(d1, "local_discharge"), discharge_add))

\* the table /step_<n>/values: the load of a catchment is a multiple of its
\* weight (zero included), its local discharge grows with the timestep
LakeTable(ids, n, l) ==
    [i \in DOMAIN ids |->
        [catchment |-> ids[i],
         load |-> l * Weight(ids[i]),
         local_discharge |-> (n + 1) * Weight(ids[i])]]

\* config["routing_model"]["lakes"].split(', '): one lake outlet or two
LakeOutlets(n) ==
    {<<a>> : a \in 1..n} \cup
    {<<p[1], p[2]>> : p \in {q \in (1..n) \X (1..n) : q[1] /= q[2]}}

InitLakes ==
    /\ \E f \in NextDownIds(NumLakeCatchments) :
          catchment_dbf = CatchmentTable(NumLakeCatchments, f, 0)
    /\ \E lake_outlets \in LakeOutlets(NumLakeCatchments), steps \in 0..MaxLakeSteps :
         \E l \in [1..steps -> 0..MaxVal] :
            buffer = [pc |-> "constructed",
                      lake_outlets |-> lake_outlets,
                      input |-> [n \in 1..steps |->
                                    LakeTable(read_ids(catchment_dbf), n - 1, l[n])]]
    /\ riversegments_dbf = <<>>
    /\ nr_compartments = 0
    /\ outlet_list = <<>>
    /\ program = "Buffer_lakes"
    /\ InitRouting
    /\ ConvertIdle
    /\ PartitionerIdle
    /\ RunnerIdle
    /\ ReaderIdle

BufferUnchanged ==
    UNCHANGED <<inputVars, tributaries, compartments, routing_compartments,
                links, upstream, upstreamcatchments, aggVars, connection,
                hdf_input, convert, runs, runnerVars, reader>>

\* sum_load(steps) up to its loop: lines 39-43
SumLoadCall ==
    /\ buffer.pc = "constructed"
    /\ LET ids == lake_dict(catchment_dbf, buffer.lake_outlets)
       IN  buffer' =
             [pc |-> "for",
              lake_outlets |-> buffer.lake_outlets,
              input |-> buffer.input,
              steps |-> Len(buffer.input),
              ids |-> ids,
              n |-> 0,
              d |-> <<[k |-> "loads", v |-> FromKeys(ids, 0)],
                      [k |-> "local_discharge", v |-> FromKeys(ids, 0)]>>]
    /\ BufferUnchanged

\* one pass of `for step in range(0, steps)`, or the return of d
SumLoadStep ==
    /\ buffer.pc = "for"
    /\ IF buffer.n = buffer.steps
       THEN buffer' = [buffer EXCEPT !.pc = "returned"]
       ELSE buffer' = [buffer EXCEPT
                         !.n = buffer.n + 1,
                         !.d = sum_load_step(buffer.d, buffer.input[buffer.n + 1],
                                             buffer.ids)]
    /\ BufferUnchanged

NextLakes == SumLoadCall \/ SumLoadStep

SpecLakes == InitLakes /\ [][NextLakes]_vars

(* ---------------------- properties: lake buffering ---------------------- *)
\* the catchments that drain into a lake outlet, the outlet included
RECURSIVE DrainsInto(_, _)
DrainsInto(id, outlet) ==
    \/ id = outlet
    \/ \E i \in DOMAIN catchment_dbf :
          /\ catchment_dbf[i].WSO1_ID = id
          /\ catchment_dbf[i].NEXTDOWNID /= Sentinel
          /\ DrainsInto(catchment_dbf[i].NEXTDOWNID, outlet)

UpstreamOfLakes ==
    {id \in ToSet(read_ids(catchment_dbf)) :
        \E o \in ToSet(buffer.lake_outlets) : DrainsInto(id, o)}

\* the sum over the timesteps 0 .. n-1 of a column of catchment id
RECURSIVE ColumnTotal(_, _, _)
ColumnTotal(column, id, n) ==
    IF n = 0 THEN 0
    ELSE ColumnTotal(column, id, n - 1) +
         SumSeq([i \in DOMAIN buffer.input[n] |->
                    IF buffer.input[n][i].catchment = id
                    THEN buffer.input[n][i][column] ELSE 0])

\* C27 -- lake buffering sums: when sum_load(steps) returns, load_sum and
\* local_discharge_sum hold, for every catchment upstream of a lake outlet,
\* the sum of its load and of its local discharge over all the timesteps
LakeBufferingSums ==
    buffer.pc = "returned" =>
        /\ HasKey(buffer.d, "load_sum")
        /\ HasKey(buffer.d, "local_discharge_sum")
        /\ \A id \in UpstreamOfLakes :
              /\ HasKey(DictGet(buffer.d, "load_sum"), id)
              /\ DictGet(DictGet(buffer.d, "load_sum"), id) =
                     ColumnTotal("load", id, buffer.steps)
              /\ HasKey(DictGet(buffer.d, "local_discharge_sum"), id)
              /\ DictGet(DictGet(buffer.d, "local_discharge_sum"), id) =
                     ColumnTotal("local_discharge", id, buffer.steps)

\* what holds: after at least one timestep load_sum and local_discharge_sum
\* hold the positive values of the last timestep alone
LakeBufferingLastStep ==
    (buffer.pc = "returned" /\ buffer.steps >= 1) =>
        \A id \in UpstreamOfLakes :
           LET load == ColumnTotal("load", id, buffer.steps)
                       - ColumnTotal("load", id, buffer.steps - 1)
               local == ColumnTotal("local_discharge", id, buffer.steps)
                        - ColumnTotal("local_discharge", id, buffer.steps - 1)
           IN  /\ HasKey(DictGet(buffer.d, "load_sum"), id) <=> load > 0
               /\ load > 0 => DictGet(DictGet(buffer.d, "load_sum"), id) = load
               /\ DictGet(DictGet(buffer.d, "local_discharge_sum"), id) = local

(* ------------------- properties: mass-balance attribution --------------- *)
\* the input id sets of the Links object: the upstream input and the lateral
\* input of every compartment, tagged with the input and the compartment
InputSets ==
    [key \in {"upstream", "lateral"} \X DOMAIN compartments.compartments |->
        IF key[1] = "upstream"
        THEN ToSet(links.upstream_input[key[2]])
        ELSE ToSet(links.lateral_input[key[2]])]

\* the catchments with a directed path to the terminal segment of the network
Contributing == UNION {PathTo(t) : t \in TerminalSegments}

IsAttribution ==
    /\ \A a, b \in DOMAIN InputSets : a /= b => InputSets[a] \cap InputSets[b] = {}
    /\ UNION {InputSets[a] : a \in DOMAIN InputSets} = Contributing

\* C28 -- Mass-balance attribution: on a valid network the sets
\* upstream_input[c] and lateral_input[c] over all compartments c are pairwise
\* disjoint and their union is exactly the set of catchments with a directed
\* path to the terminal segment, the river segments included.
MassBalanceAttribution ==
    links.built => IsAttribution

\* what holds: the attribution is exact on every network whose junctions are
\* detected, i.e. where the compartments partition the river segments
MassBalanceAttributionOfPartition ==
    (links.built /\ PartitionCompleteness) => IsAttribution

\* a network on which the attribution is exact although a tributary with a
\* nested catchment drains into a head and another one into a later segment
MassBalanceAttributionWitness ==
    /\ links.built
    /\ IsAttribution
    /\ \E name \in DOMAIN compartments.compartments :
          /\ Cardinality(ToSet(links.upstream_input[name])) >= 2
          /\ Len(compartments.compartments[name]) >= 2

(* --------------------- properties: compartment count -------------------- *)
\* at most two river segments drain directly into any river segment
BinaryConfluences ==
    \A s \in NetworkIds : Cardinality(SegmentsInto(s)) <= 2

\* the junctions of the network: at least two river segments drain into them
NetworkJunctions == {s \in NetworkIds : Cardinality(SegmentsInto(s)) >= 2}

\* the claim of C29 for a mapping name -> ids and the outlets of Tributaries
IsCompartmentCount(comps) ==
    LET J == Cardinality(NetworkJunctions)
        N == nr_compartments
        count == Cardinality(DOMAIN comps)
    IN  /\ (/\ N >= 2 * J + 1
            /\ Len(tributaries.ids_tributary_outlets) >= N - (2 * J + 1))
           => count = N
        /\ N < 2 * J + 1 => count = 2 * J + 1

\* C29 -- Compartment count: on a network with at most binary confluences,
\* with J junctions and the configured count N, the number of compartments is
\* N when N >= 2*J + 1 and at least N - (2*J + 1) tributary outlets exist, and
\* 2*J + 1 when N is smaller.  Stated of aqu_comp.py's Compartments.
CompartmentCount ==
    (compartments.built /\ BinaryConfluences) =>
        IsCompartmentCount(compartments.compartments)

\* the same statement of routing.py's Compartments
CompartmentCountRouting ==
    (routing_compartments.built /\ BinaryConfluences) =>
        IsCompartmentCount(routing_compartments.compartments)


\* what holds for aqu_comp.py: the compartments are the distinct heads; where
\* the junctions are detected their number is at least 2*J + 1 and at most
\* the larger of 2*J + 1 and N + 1
CompartmentCountBounds ==
    (compartments.built /\ BinaryConfluences /\ JunctionDetection) =>
        LET J == Cardinality(NetworkJunctions)
            N == nr_compartments
            count == Cardinality(DOMAIN compartments.compartments)
        IN  /\ count = Cardinality(ToSet(compartments.ids_headwater)
                                   \cup ToSet(compartments.ids_junctions)
                                   \cup ToSet(compartments.ids_advective_inlets))
            /\ count >= 2 * J + 1
            /\ count <= IF N + 1 > 2 * J + 1 THEN N + 1 ELSE 2 * J + 1

====
